---------------------------- MODULE Spec2Model ----------------------------
(***************************************************************************)
(* Telemetry ingestion and persistence pipeline of komkomunikacijos-ld:    *)
(* the line decoder (parser.go), the serial reader goroutine and the frame *)
(* loop that share the packets channel (main.go), and the packets table    *)
(* behind Database (database.go).                                          *)
(*                                                                         *)
(* Text is modelled by TLA+ strings, one character per position.  A        *)
(* float64 is modelled by the decimal it was written as, [m, e] standing   *)
(* for m * 10^(-e) with m not divisible by 10 unless e = 0; the lines the  *)
(* model reads carry short decimals, for which float64 parsing and         *)
(* fixed-precision formatting are exact in this representation.            *)
(***************************************************************************)
EXTENDS Integers, Sequences, FiniteSets, TLC

(***************************************************************************)
(* Bounds of the model.                                                    *)
(***************************************************************************)
\* capacity of the packets channel; runApp makes it with 128 (main.go:83)
ChanCap == 2
\* number of ReadString calls the transport answers
MaxLines == 4
\* number of INSERT statements the store answers; later ones stay pending
MaxDone == 2
\* longest line, in fields, that the decoder is given on its own
MaxFields == 7

(***************************************************************************)
(* strings                                                                 *)
(***************************************************************************)
Char(s, i) == SubSeq(s, i, i)

Drop(s, n) == SubSeq(s, n + 1, Len(s))

\* unicode.IsSpace on the characters a TLA+ string can hold
IsSpace(c) == c \in {" ", "\t", "\n", "\r", "\f"}

RECURSIVE TrimLeft(_)
TrimLeft(s) ==
    IF Len(s) > 0 /\ IsSpace(Char(s, 1)) THEN TrimLeft(Drop(s, 1)) ELSE s

RECURSIVE TrimRight(_)
TrimRight(s) ==
    IF Len(s) > 0 /\ IsSpace(Char(s, Len(s)))
    THEN TrimRight(SubSeq(s, 1, Len(s) - 1))
    ELSE s

\* strings.TrimSpace
TrimSpace(s) == TrimRight(TrimLeft(s))

\* strings.IndexByte, 1-based, 0 when c does not occur
RECURSIVE IndexFrom(_, _, _)
IndexFrom(s, c, i) ==
    IF i > Len(s) THEN 0
    ELSE IF Char(s, i) = c THEN i
    ELSE IndexFrom(s, c, i + 1)

Index(s, c) == IndexFrom(s, c, 1)

\* strings.Split(s, sep) for a one-character separator: n separators give
\* n + 1 parts, and a string without the separator gives the string itself
RECURSIVE Split(_, _)
Split(s, sep) ==
    LET i == Index(s, sep) IN
    IF i = 0 THEN <<s>>
    ELSE <<SubSeq(s, 1, i - 1)>> \o Split(Drop(s, i), sep)

\* strings.HasPrefix
HasPrefix(s, prefix) ==
    Len(s) >= Len(prefix) /\ SubSeq(s, 1, Len(prefix)) = prefix

\* strings.TrimPrefix
TrimPrefix(s, prefix) ==
    IF HasPrefix(s, prefix) THEN Drop(s, Len(prefix)) ELSE s

(***************************************************************************)
(* strconv                                                                 *)
(***************************************************************************)
Digits == {"0", "1", "2", "3", "4", "5", "6", "7", "8", "9"}

DigitVal(c) ==
    CASE c = "0" -> 0 [] c = "1" -> 1 [] c = "2" -> 2 [] c = "3" -> 3
      [] c = "4" -> 4 [] c = "5" -> 5 [] c = "6" -> 6 [] c = "7" -> 7
      [] c = "8" -> 8 [] c = "9" -> 9

AllDigits(s) == \A i \in 1..Len(s) : Char(s, i) \in Digits

RECURSIVE DigitsVal(_, _)
DigitsVal(s, acc) ==
    IF Len(s) = 0 THEN acc
    ELSE DigitsVal(Drop(s, 1), 10 * acc + DigitVal(Char(s, 1)))

RECURSIVE Pow10(_)
Pow10(n) == IF n <= 0 THEN 1 ELSE 10 * Pow10(n - 1)

IsSign(c) == c \in {"+", "-"}

\* the string after an optional sign
Unsigned(s) == IF Len(s) > 0 /\ IsSign(Char(s, 1)) THEN Drop(s, 1) ELSE s

SignOf(s) == IF Len(s) > 0 /\ Char(s, 1) = "-" THEN -1 ELSE 1

\* strconv.Atoi: an optional sign and at least one decimal digit
Atoi(s) ==
    LET u == Unsigned(s) IN
    IF Len(u) > 0 /\ AllDigits(u)
    THEN [n |-> SignOf(s) * DigitsVal(u, 0), err |-> "nil"]
    ELSE [n |-> 0, err |-> "strconv.Atoi: invalid syntax"]

\* a decimal m * 10^(-e) in lowest terms
RECURSIVE Norm(_, _)
Norm(m, e) ==
    IF m = 0 THEN [m |-> 0, e |-> 0]
    ELSE IF e > 0 /\ m % 10 = 0 THEN Norm(m \div 10, e - 1)
    ELSE IF e < 0 THEN Norm(m * 10, e + 1)
    ELSE [m |-> m, e |-> e]

Zero == [m |-> 0, e |-> 0]

\* strconv.ParseFloat(s, 64) on decimal literals: an optional sign, digits
\* with an optional point (at least one digit), an optional exponent
ParseFloat(s) ==
    LET u    == Unsigned(s)
        le   == Index(u, "e")
        ue   == Index(u, "E")
        x    == IF le = 0 THEN ue ELSE IF ue = 0 THEN le
                ELSE IF le < ue THEN le ELSE ue
        mant == IF x = 0 THEN u ELSE SubSeq(u, 1, x - 1)
        expo == IF x = 0 THEN "" ELSE Drop(u, x)
        dot  == Index(mant, ".")
        ip   == IF dot = 0 THEN mant ELSE SubSeq(mant, 1, dot - 1)
        fp   == IF dot = 0 THEN "" ELSE Drop(mant, dot)
        eu   == Unsigned(expo)
        okm  == AllDigits(ip) /\ AllDigits(fp) /\ Len(ip) + Len(fp) > 0
        oke  == x = 0 \/ (Len(eu) > 0 /\ AllDigits(eu))
        ev   == IF x = 0 THEN 0 ELSE SignOf(expo) * DigitsVal(eu, 0)
    IN
    IF okm /\ oke
    THEN [f |-> Norm(SignOf(s) * DigitsVal(ip \o fp, 0), Len(fp) - ev), err |-> "nil"]
    ELSE [f |-> Zero, err |-> "strconv.ParseFloat: invalid syntax"]

(***************************************************************************)
(* parser.go                                                               *)
(***************************************************************************)
\* var p Packet
ZeroPacket ==
    [Time |-> "", Latitude |-> Zero, Longitude |-> Zero, Satellites |-> 0,
     Acceleration |-> <<Zero, Zero, Zero>>]

\* ParseAccel passing over a component that is not a number
RECURSIVE ParseAccelSkipBad(_, _, _)
ParseAccelSkipBad(p, nums, i) ==
    IF i > 3 THEN [p |-> p, err |-> "nil"]
    ELSE LET r == ParseFloat(nums[i]) IN
         IF r.err # "nil" THEN ParseAccelSkipBad(p, nums, i + 1)
         ELSE ParseAccelSkipBad([p EXCEPT !.Acceleration[i] = r.f], nums, i + 1)

\* the loop over the three components of an acceleration field: each
\* component parsed is stored before the next one is looked at
RECURSIVE ParseAccel(_, _, _)
ParseAccel(p, nums, i) ==
    IF i > 3 THEN [p |-> p, err |-> "nil"]
    ELSE LET r == ParseFloat(nums[i]) IN
         IF r.err # "nil" THEN [p |-> p, err |-> r.err]
         ELSE ParseAccel([p EXCEPT !.Acceleration[i] = r.f], nums, i + 1)

\* one pass of the switch over a field
ParseField(p, field) ==
    IF HasPrefix(field, "Time-")
    THEN [p |-> [p EXCEPT !.Time = TrimPrefix(field, "Time-")], err |-> "nil"]
    ELSE IF HasPrefix(field, "Latitude-")
    THEN LET r == ParseFloat(TrimPrefix(field, "Latitude-")) IN
         IF r.err # "nil" THEN [p |-> p, err |-> r.err]
         ELSE [p |-> [p EXCEPT !.Latitude = r.f], err |-> "nil"]
    ELSE IF HasPrefix(field, "Longitude-")
    THEN LET r == ParseFloat(TrimPrefix(field, "Longitude-")) IN
         IF r.err # "nil" THEN [p |-> p, err |-> r.err]
         ELSE [p |-> [p EXCEPT !.Longitude = r.f], err |-> "nil"]
    ELSE IF HasPrefix(field, "Satellites-")
    THEN LET r == Atoi(TrimPrefix(field, "Satellites-")) IN
         IF r.err # "nil" THEN [p |-> p, err |-> r.err]
         ELSE [p |-> [p EXCEPT !.Satellites = r.n], err |-> "nil"]
    ELSE IF HasPrefix(field, "Acceleration")
    THEN LET partsAcc == Split(field, ":") IN
         IF Len(partsAcc) # 2 THEN [p |-> p, err |-> "bad accel field"]
         ELSE LET nums == Split(partsAcc[2], ",") IN
              IF Len(nums) # 3 THEN [p |-> p, err |-> "bad accel values"]
              ELSE ParseAccel(p, nums, 1)
    ELSE [p |-> p, err |-> "nil"]

\* for _, field := range parts[1:], returning at the first error
RECURSIVE ParseFields(_, _, _)
ParseFields(p, parts, i) ==
    IF i > Len(parts) THEN [p |-> p, err |-> "nil"]
    ELSE LET r == ParseField(p, parts[i]) IN
         IF r.err # "nil" THEN r
         ELSE ParseFields(r.p, parts, i + 1)

\* TooFewFields with the threshold one too low
TooFewFieldsOffByOne(parts) == Len(parts) < 5

\* len(parts) < 6
TooFewFields(parts) == Len(parts) < 6

\* ParsePacket ranging over parts instead of parts[1:]
ParsePacketFromFirst(ln) ==
    LET t == TrimSpace(ln) IN
    IF t = "" THEN [p |-> ZeroPacket, err |-> "empty line"]
    ELSE LET parts == Split(t, ";") IN
         IF TooFewFields(parts) THEN [p |-> ZeroPacket, err |-> "not enough fields"]
         ELSE ParseFields(ZeroPacket, parts, 1)

ParsePacket(ln) ==
    LET t == TrimSpace(ln) IN
    IF t = "" THEN [p |-> ZeroPacket, err |-> "empty line"]
    ELSE LET parts == Split(t, ";") IN
         IF TooFewFields(parts) THEN [p |-> ZeroPacket, err |-> "not enough fields"]
         ELSE ParseFields(ZeroPacket, parts, 2)

(***************************************************************************)
(* formatting (fmt, strconv)                                               *)
(***************************************************************************)
DigitChar(d) == Char("0123456789", d + 1)

RECURSIVE NatStr(_)
NatStr(n) == IF n < 10 THEN DigitChar(n) ELSE NatStr(n \div 10) \o DigitChar(n % 10)

\* strconv.Itoa, %d
Itoa(n) == IF n < 0 THEN "-" \o NatStr(-n) ELSE NatStr(n)

Abs(n) == IF n < 0 THEN -n ELSE n

\* n as exactly w digits, zero-padded on the left
RECURSIVE PadNat(_, _)
PadNat(n, w) == IF w <= 0 THEN "" ELSE PadNat(n \div 10, w - 1) \o DigitChar(n % 10)

\* f in units of 10^(-prec), rounded to nearest when f has more digits
Scaled(f, prec) ==
    IF f.e <= prec THEN f.m * Pow10(prec - f.e)
    ELSE LET d == Pow10(f.e - prec)
             q == (2 * Abs(f.m) + d) \div (2 * d)
         IN IF f.m < 0 THEN -q ELSE q

\* %.<prec>f and strconv.FormatFloat(f, 'f', prec, 64)
FormatFixed(f, prec) ==
    LET a == Abs(Scaled(f, prec)) IN
    (IF f.m < 0 THEN "-" ELSE "")
        \o NatStr(a \div Pow10(prec))
        \o (IF prec > 0 THEN "." \o PadNat(a % Pow10(prec), prec) ELSE "")

\* float32(x): a float32 holds 6 significant decimal digits of any decimal
RECURSIVE Float32(_)
Float32(f) ==
    IF Abs(f.m) < 1000000 THEN f
    ELSE LET q == (Abs(f.m) + 5) \div 10 IN
         Float32(Norm(IF f.m < 0 THEN -q ELSE q, f.e - 1))

(***************************************************************************)
(* The transport.  ReadString('\n') returns the line with its delimiter.   *)
(***************************************************************************)
\* the well-formed line of the n-th read: the device's clock and its z-axis
\* sample move on from one line to the next
GoodLine(n) ==
    "ignored;Time-12:00:0" \o Itoa(n) \o ";Latitude-54.1;Longitude-25.2;Satellites-9"
        \o ";Acceleration:0.1,-0.2," \o Itoa(n) \o ".5\r\n"

BadLines ==
    { "\n",
      "x;Acceleration:1,2\n",
      "x;Time-12:00:02;Latitude-54.1;Longitude-25.2;Satellites-9;Acceleration:1,2\n",
      "x;Time-12:00:02;Latitude-54.1;Longitude-25.2;Satellites-9;Acceleration:1,2,3,4\n",
      "x;Time-12:00:02;Latitude-54.1;Longitude-25.2;Satellites-9;Acceleration:7,8,z\n",
      "x;Time-12:00:02;Latitude-54.1;Longitude-25.2;Satellites-9;Acceleration-1,2,3\n",
      "x;Time-12:00:02;Latitude-5 4.1;Longitude-25.2;Satellites-9;Acceleration:1,2,3\n" }

\* what the n-th ReadString can return
WireLines(n) == {GoodLine(n)} \cup BadLines

(***************************************************************************)
(* State.                                                                  *)
(*   rpc, nRead, line, res   startSerialReader: position, reads so far,    *)
(*                           the line read and ParsePacket's (p, err)      *)
(*   out                     the packets channel, oldest first             *)
(*   db, closed              the store handle (FALSE: nil) and db.Close    *)
(*   tasks, rows, nextId     running auto-save goroutines, the packets     *)
(*                           table and its AUTO_INCREMENT counter          *)
(*   upc, LastPacket, Series, LogLines, PortOpen                           *)
(*                           runApp's event loop and UIState               *)
(*   snap, nEnq, nSpawn                                                    *)
(*                           history: the channel as the failed offer saw  *)
(*                           it and whether a receive came since,          *)
(*                           completed enqueues, spawned auto-saves        *)
(*   now                     the store server's clock, in seconds          *)
(*   got, listed             the answer to the last query and the z values *)
(*                           of the last unlimited GetPackets, both since  *)
(*                           the table last changed                        *)
(*   ids, cleared, deqd      history: the identifiers successful inserts   *)
(*                           returned; "never" until a DeleteAllPackets    *)
(*                           succeeds, then "emptied" until the next       *)
(*                           successful insert, then "refilled"; the       *)
(*                           packets received by the frame loop since the  *)
(*                           last clear                                    *)
(*   DBPacketCount, DBLastPacket, DBSeries                                 *)
(*                           UIState's database fields                     *)
(*   files                   the export files in the working directory, by *)
(*                           name                                          *)
(*   made, logd, acts, tally history: for each export file the format and  *)
(*                           second of the exports that created it and     *)
(*                           what an export replaced; the lines appended   *)
(*                           to the log since the last clear; what each    *)
(*                           handler of the last frame met and logged; the *)
(*                           frames that had a click, the clicks on Clear  *)
(*                           DB and the DeleteAllPackets calls so far      *)
(* A packet travels with the number and the text of the line it was        *)
(* decoded from (seq, src), which the program does not hold.               *)
(***************************************************************************)
VARIABLES rpc, nRead, line, res, out, db, closed, tasks, rows, nextId, nDone,
          upc, LastPacket, Series, LogLines, PortOpen,
          snap, nEnq, nSpawn,
          now, got, listed, ids, cleared, deqd,
          DBPacketCount, DBLastPacket, DBSeries, files, made, logd, acts, tally

readerVars == <<rpc, nRead, line, res>>
storeVars  == <<tasks, rows, nextId, nDone>>
uiVars     == <<upc, LastPacket, Series, LogLines, PortOpen>>
histVars   == <<snap, nEnq, nSpawn>>
dbuiVars   == <<DBPacketCount, DBLastPacket, DBSeries>>
fileVars   == <<files, made>>
clickVars  == <<acts, tally>>
moreVars   == <<now, got, listed, ids, cleared, deqd,
               dbuiVars, fileVars, logd, clickVars>>
vars == <<rpc, nRead, line, res, out, db, closed, tasks, rows, nextId, nDone,
          upc, LastPacket, Series, LogLines, PortOpen,
          snap, nEnq, nSpawn,
          now, got, listed, ids, cleared, deqd,
          DBPacketCount, DBLastPacket, DBSeries, files, made, logd, acts, tally>>

\* live-series and log capacities; 300 and 200 in main.go:54-55
SeriesCap == 2
LogCap == 2

\* no query or export answered since the table last changed; of an export,
\* name is the file it was given, fault the step of it that failed, and
\* replaced the content of the file it truncated, if there was one
NoAnswer ==
    [op |-> "none", limit |-> 0, err |-> "nil",
     packets |-> <<>>, count |-> 0, series |-> <<>>,
     name |-> "", fault |-> "none", replaced |-> <<>>]

\* state.DBLastPacket == nil; a non-nil pointer is a one-row sequence
NoStored == <<>>

\* a directory without export files; a file is a name and its content
NoFiles == {}

NoTally == [frames |-> 0, requests |-> 0, deletes |-> 0]
NoList == [some |-> FALSE, zs |-> <<>>]

NoSnap == [full |-> FALSE, buf |-> <<>>, deq |-> FALSE]

\* line, p and err of an iteration that has not read its line yet
NoLine == ""
NoResult == [p |-> ZeroPacket, err |-> "nil"]

\* the packet p of the running loop iteration
Cur == [seq |-> nRead, src |-> line, pkt |-> res.p]

NoPacket == [seq |-> 0, src |-> "", pkt |-> ZeroPacket]

\* CanSend of a channel that takes one record more
CanSendOffByOne(ch) == Len(ch) <= ChanCap

\* make(chan Packet, 128): a send goes through while the buffer has room
CanSend(ch) == Len(ch) < ChanCap

\* ChanSend putting the record in front of the pending ones
ChanSendFront(ch, e) == <<e>> \o ch

\* out <- p
ChanSend(ch, e) == Append(ch, e)

\* ChanRecv taking the newest record
ChanRecvNewest(ch) == [val |-> ch[Len(ch)], rest |-> SubSeq(ch, 1, Len(ch) - 1)]

\* <-out: the value received and the channel left
ChanRecv(ch) == [val |-> Head(ch), rest |-> Tail(ch)]

\* KeepLast dropping the newest entries instead of the oldest
KeepFirst(s, capacity) ==
    IF Len(s) > capacity THEN SubSeq(s, 1, capacity) ELSE s

\* s = s[len(s)-capacity:] when len(s) > capacity
KeepLast(s, capacity) ==
    IF Len(s) > capacity THEN SubSeq(s, Len(s) - capacity + 1, Len(s)) ELSE s

Init ==
    /\ rpc = "open" /\ nRead = 0 /\ line = NoLine /\ res = NoResult
    /\ out = <<>>
    /\ db \in BOOLEAN /\ closed = FALSE
    /\ tasks = {} /\ rows = <<>> /\ nextId = 1 /\ nDone = 0
    /\ upc = "idle" /\ LastPacket = NoPacket /\ Series = <<>> /\ LogLines = <<>>
    /\ PortOpen = FALSE
    /\ snap = NoSnap /\ nEnq = 0 /\ nSpawn = 0
    /\ now = 0 /\ got = NoAnswer /\ listed = NoList
    /\ ids = <<>> /\ cleared = "never" /\ deqd = <<>>
    /\ DBPacketCount = 0 /\ DBLastPacket = NoStored /\ DBSeries = <<>>
    /\ files = NoFiles /\ made = NoFiles /\ logd = <<>>
    /\ acts = <<>> /\ tally = NoTally

(***************************************************************************)
(* startSerialReader                                                       *)
(***************************************************************************)
\* serial.OpenPort: on an error the goroutine returns
OpenPort ==
    /\ rpc = "open"
    /\ \E ok \in BOOLEAN : rpc' = IF ok THEN "read" ELSE "done"
    /\ UNCHANGED <<nRead, line, res, out, db, closed, storeVars, uiVars, histVars, moreVars>>

\* reader.ReadString('\n') fails: log and continue
ReadError ==
    /\ rpc = "read" /\ nRead < MaxLines
    /\ nRead' = nRead + 1
    /\ line' = NoLine
    /\ res' = [p |-> ZeroPacket, err |-> "read error"]
    /\ UNCHANGED <<rpc, out, db, closed, storeVars, uiVars, histVars, moreVars>>

\* reader.ReadString('\n') returns a line
ReadLine ==
    /\ rpc = "read" /\ nRead < MaxLines
    /\ \E l \in WireLines(nRead + 1) : line' = l
    /\ nRead' = nRead + 1
    /\ res' = NoResult
    /\ rpc' = "parse"
    /\ UNCHANGED <<out, db, closed, storeVars, uiVars, histVars, moreVars>>

\* Decode going on to the enqueue whatever err is
DecodeIgnoringError ==
    /\ rpc = "parse"
    /\ res' = ParsePacket(line)
    /\ rpc' = "offer"
    /\ UNCHANGED <<nRead, line, out, db, closed, storeVars, uiVars, histVars, moreVars>>

\* p, err := ParsePacket(line): on an error log and continue
Decode ==
    /\ rpc = "parse"
    /\ res' = ParsePacket(line)
    /\ rpc' = IF res'.err # "nil" THEN "read" ELSE "offer"
    /\ UNCHANGED <<nRead, line, out, db, closed, storeVars, uiVars, histVars, moreVars>>

\* select { case out <- p: default: ... }
Offer ==
    /\ rpc = "offer"
    /\ IF CanSend(out)
       THEN /\ out' = ChanSend(out, Cur)
            /\ rpc' = "spawn"
            /\ nEnq' = nEnq + 1
            /\ snap' = NoSnap
       ELSE /\ rpc' = "evict"
            /\ snap' = [full |-> TRUE, buf |-> out, deq |-> FALSE]
            /\ UNCHANGED <<out, nEnq, moreVars>>
    /\ UNCHANGED <<nRead, line, res, db, closed, storeVars, uiVars, nSpawn, moreVars>>

\* Evicted dropping the newest record, and dropping none
EvictedNewest(ch) == IF Len(ch) > 0 THEN SubSeq(ch, 1, Len(ch) - 1) ELSE ch
EvictedNone(ch) == ch

\* the channel after select { case <-out: default: }
Evicted(ch) == IF Len(ch) > 0 THEN ChanRecv(ch).rest ELSE ch

Evict ==
    /\ rpc = "evict"
    /\ out' = Evicted(out)
    /\ rpc' = "send"
    /\ UNCHANGED <<nRead, line, res, db, closed, storeVars, uiVars, histVars, moreVars>>

\* out <- p, which waits while the buffer is full
Send ==
    /\ rpc = "send"
    /\ CanSend(out)
    /\ out' = ChanSend(out, Cur)
    /\ rpc' = "spawn"
    /\ nEnq' = nEnq + 1
    /\ UNCHANGED <<nRead, line, res, db, closed, storeVars, uiVars, snap, nSpawn, moreVars>>

\* Spawned without the go statement
SpawnedNever(connected, e) == {}

\* Spawned without the test for a nil db
SpawnedAlways(connected, e) == {e}

\* the goroutines started by one pass over `if db != nil { go func() ... }`
Spawned(connected, e) == IF connected THEN {e} ELSE {}

\* if db != nil { go func() { db.InsertPacket(p) }() }; w.Invalidate()
Spawn ==
    /\ rpc = "spawn"
    /\ tasks' = tasks \cup Spawned(db, Cur)
    /\ nSpawn' = nSpawn + Cardinality(Spawned(db, Cur))
    /\ rpc' = "read"
    /\ line' = NoLine
    /\ res' = NoResult
    /\ snap' = NoSnap
    /\ UNCHANGED <<nRead, out, db, closed, rows, nextId, nDone, uiVars, nEnq, moreVars>>

(***************************************************************************)
(* Database.InsertPacket run by an auto-save goroutine                     *)
(***************************************************************************)
\* NewRow with the identifier taken from the order of decoding
NewRowBySeq(id, e) ==
    [id |-> e.seq, Time |-> e.pkt.Time,
     Latitude |-> e.pkt.Latitude, Longitude |-> e.pkt.Longitude,
     Satellites |-> e.pkt.Satellites,
     AccelerationX |-> e.pkt.Acceleration[1],
     AccelerationY |-> e.pkt.Acceleration[2],
     AccelerationZ |-> e.pkt.Acceleration[3],
     created_at |-> now, updated_at |-> now,
     seq |-> e.seq, src |-> e.src]

\* the row of an INSERT that the server gave the identifier id; created_at
\* and updated_at default to CURRENT_TIMESTAMP, the server's clock in whole
\* seconds
NewRow(id, e) ==
    [id |-> id, Time |-> e.pkt.Time,
     Latitude |-> e.pkt.Latitude, Longitude |-> e.pkt.Longitude,
     Satellites |-> e.pkt.Satellites,
     AccelerationX |-> e.pkt.Acceleration[1],
     AccelerationY |-> e.pkt.Acceleration[2],
     AccelerationZ |-> e.pkt.Acceleration[3],
     created_at |-> now, updated_at |-> now,
     seq |-> e.seq, src |-> e.src]

\* InsertOk as a statement that overwrites the newest row with the new one
InsertOkReplacing ==
    /\ ~closed /\ nDone < MaxDone
    /\ \E t \in tasks :
        /\ rows' = IF Len(rows) = 0 THEN <<NewRow(nextId, t)>>
                   ELSE [rows EXCEPT ![Len(rows)] = NewRow(nextId, t)]
        /\ nextId' = nextId + 1
        /\ tasks' = tasks \ {t}
    /\ nDone' = nDone + 1
    /\ ids' = Append(ids, nextId)
    /\ cleared' = IF cleared = "never" THEN "never" ELSE "refilled"
    /\ got' = NoAnswer /\ listed' = NoList
    /\ UNCHANGED <<readerVars, out, db, closed, uiVars, histVars, now, deqd,
                   dbuiVars, fileVars, logd, clickVars>>

\* InsertOk as a goroutine that reads the reader's variables when it runs
\* instead of the p of the iteration that started it
InsertOkCurrent ==
    /\ ~closed /\ nDone < MaxDone
    /\ \E t \in tasks :
        /\ rows' = Append(rows, NewRow(nextId, Cur))
        /\ nextId' = nextId + 1
        /\ tasks' = tasks \ {t}
    /\ nDone' = nDone + 1
    /\ ids' = Append(ids, nextId)
    /\ cleared' = IF cleared = "never" THEN "never" ELSE "refilled"
    /\ got' = NoAnswer /\ listed' = NoList
    /\ UNCHANGED <<readerVars, out, db, closed, uiVars, histVars, now, deqd,
                   dbuiVars, fileVars, logd, clickVars>>

\* d.db.Exec succeeds: the row is appended and the goroutine ends
InsertOk ==
    /\ ~closed /\ nDone < MaxDone
    /\ \E t \in tasks :
        /\ rows' = Append(rows, NewRow(nextId, t))
        /\ nextId' = nextId + 1
        /\ tasks' = tasks \ {t}
    /\ nDone' = nDone + 1
    /\ ids' = Append(ids, nextId)
    /\ cleared' = IF cleared = "never" THEN "never" ELSE "refilled"
    /\ got' = NoAnswer /\ listed' = NoList
    /\ UNCHANGED <<readerVars, out, db, closed, uiVars, histVars, now, deqd,
                   dbuiVars, fileVars, logd, clickVars>>

\* InsertFail returning its error after the row was written
InsertFailAfterWrite ==
    /\ nDone < MaxDone
    /\ \E t \in tasks :
        /\ rows' = Append(rows, NewRow(nextId, t))
        /\ tasks' = tasks \ {t}
    /\ nextId' = nextId + 1
    /\ nDone' = nDone + 1
    /\ UNCHANGED <<readerVars, out, db, closed, uiVars, histVars, moreVars>>

\* d.db.Exec fails: the error is returned, the goroutine logs it and ends.
\* (result.LastInsertId of the MySQL driver never fails after an Exec that
\* succeeded, so a row written is a row reported.)
InsertFail ==
    /\ nDone < MaxDone
    /\ \E t \in tasks : tasks' = tasks \ {t}
    /\ nDone' = nDone + 1
    /\ UNCHANGED <<readerVars, out, db, closed, rows, nextId, uiVars, histVars, moreVars>>

(***************************************************************************)
(* runApp's event loop                                                     *)
(***************************************************************************)
\* w.Event() returns an app.FrameEvent
FrameStart ==
    /\ upc = "idle"
    /\ upc' = "drain"
    /\ UNCHANGED <<readerVars, out, db, closed, storeVars,
                   LastPacket, Series, LogLines, PortOpen, histVars, moreVars>>

\* the line logged for a packet taken from the channel
PacketLog(p) ==
    p.Time \o " Lat:" \o FormatFixed(p.Latitude, 6)
           \o " Lon:" \o FormatFixed(p.Longitude, 6)
           \o " Sat:" \o Itoa(p.Satellites)
           \o " AccZ:" \o FormatFixed(p.Acceleration[3], 2)

\* drain: case p := <-packets
DrainRecv ==
    /\ upc = "drain"
    /\ Len(out) > 0
    /\ LET r == ChanRecv(out) IN
        /\ out' = r.rest
        /\ LastPacket' = r.val
        /\ Series' = KeepLast(Append(Series, Float32(r.val.pkt.Acceleration[3])), SeriesCap)
        /\ LogLines' = KeepLast(Append(LogLines, PacketLog(r.val.pkt)), LogCap)
    /\ snap' = IF rpc \in {"evict", "send", "spawn"} THEN [snap EXCEPT !.deq = TRUE] ELSE snap
    /\ deqd' = Append(deqd, ChanRecv(out).val)
    /\ logd' = Append(logd, PacketLog(ChanRecv(out).val.pkt))
    /\ UNCHANGED <<readerVars, db, closed, storeVars, upc, PortOpen, nEnq, nSpawn,
                   now, got, listed, ids, cleared, dbuiVars, fileVars, clickVars>>

\* drain: default: break drain
DrainDone ==
    /\ upc = "drain"
    /\ Len(out) = 0
    /\ upc' = "buttons"
    /\ UNCHANGED <<readerVars, out, db, closed, storeVars,
                   LastPacket, Series, LogLines, PortOpen, histVars, moreVars>>

\* the rest of the frame with no button clicked: layoutRoot, ev.Frame
FrameEnd ==
    /\ upc = "buttons"
    /\ upc' = "idle"
    /\ UNCHANGED <<readerVars, out, db, closed, storeVars,
                   LastPacket, Series, LogLines, PortOpen, histVars, moreVars>>

\* the rest of the frame with the Clear button clicked: the log and the
\* live series are set to nil
FrameEndCleared ==
    /\ upc = "buttons"
    /\ Series' = <<>>
    /\ LogLines' = <<>>
    /\ deqd' = <<>>
    /\ logd' = <<>>
    /\ upc' = "idle"
    /\ UNCHANGED <<readerVars, out, db, closed, storeVars, LastPacket, PortOpen,
                   histVars, now, got, listed, ids, cleared,
                   dbuiVars, fileVars, clickVars>>

\* w.Event() returns an app.DestroyEvent: runApp returns, and the deferred
\* db.Close() runs when the store was connected
Destroy ==
    /\ upc = "idle"
    /\ upc' = "closed"
    /\ closed' = db
    /\ UNCHANGED <<readerVars, out, db, storeVars,
                   LastPacket, Series, LogLines, PortOpen, histVars, moreVars>>

Next ==
    \/ OpenPort \/ ReadError \/ ReadLine \/ Decode
    \/ Offer \/ Evict \/ Send \/ Spawn
    \/ InsertOk \/ InsertFail
    \/ FrameStart \/ DrainRecv \/ DrainDone \/ FrameEnd \/ Destroy

Spec == Init /\ [][Next]_vars

(***************************************************************************)
(* The decoder on its own: ParsePacket applied to one line out of a        *)
(* family built from the documented example line by cutting it short or    *)
(* extending it and replacing up to two of its fields.                     *)
(***************************************************************************)
Canon ==
    <<"ignored", "Time-12:00:00", "Latitude-54.1", "Longitude-25.2",
      "Satellites-9", "Acceleration:0.1,-0.2,0.3">>

FieldPool ==
    { "", "x", "Altitude-120", "Time-07:30:15", " Latitude-7",
      "Latitude-x1", "Latitude--3.25", "Longitude-1e2",
      "Satellites--2", "Satellites-9.5",
      "Acceleration:1,2", "Acceleration:1,2,3,4", "Acceleration:1,,3",
      "Acceleration-1,2,3", "Acceleration:7,8,z", "AccelerationX:4,5,6" }

Keep == "<keep>"

BaseFields(n) == [i \in 1..n |-> IF i <= Len(Canon) THEN Canon[i] ELSE "Altitude-120"]

Subst(fs, i, f) == IF f = Keep THEN fs ELSE [fs EXCEPT ![i] = f]

RECURSIVE Join(_, _)
Join(fs, sep) ==
    IF Len(fs) = 0 THEN ""
    ELSE IF Len(fs) = 1 THEN fs[1]
    ELSE fs[1] \o sep \o Join(Tail(fs), sep)

FieldLists ==
    UNION { { Subst(Subst(BaseFields(n), i, f), j, g) :
                i \in 1..n, j \in 1..n,
                f \in FieldPool \cup {Keep}, g \in FieldPool \cup {Keep} } :
            n \in 1..MaxFields }

ParseLines ==
    { w[1] \o Join(fs, ";") \o w[2] :
        w \in {<<"", "">>, <<" \t", "\r\n">>}, fs \in FieldLists }
    \cup {"", "\n", " \t\r\n", "x;Acceleration:1,2"}

InitParse ==
    /\ rpc = "parse" /\ nRead = 1 /\ line \in ParseLines /\ res = NoResult
    /\ out = <<>>
    /\ db = FALSE /\ closed = FALSE
    /\ tasks = {} /\ rows = <<>> /\ nextId = 1 /\ nDone = 0
    /\ upc = "idle" /\ LastPacket = NoPacket /\ Series = <<>> /\ LogLines = <<>>
    /\ PortOpen = FALSE
    /\ snap = NoSnap /\ nEnq = 0 /\ nSpawn = 0
    /\ now = 0 /\ got = NoAnswer /\ listed = NoList
    /\ ids = <<>> /\ cleared = "never" /\ deqd = <<>>
    /\ DBPacketCount = 0 /\ DBLastPacket = NoStored /\ DBSeries = <<>>
    /\ files = NoFiles /\ made = NoFiles /\ logd = <<>>
    /\ acts = <<>> /\ tally = NoTally

SpecParse == InitParse /\ [][Decode]_vars

(***************************************************************************)
(* Reading a line without the decoder's own operators.                     *)
(***************************************************************************)
RECURSIVE CountChar(_, _)
CountChar(s, c) ==
    IF Len(s) = 0 THEN 0
    ELSE (IF Char(s, 1) = c THEN 1 ELSE 0) + CountChar(Drop(s, 1), c)

Contains(s, sub) ==
    \E i \in 1..(Len(s) - Len(sub) + 1) : SubSeq(s, i, i + Len(sub) - 1) = sub

\* the line without the white space around it
RECURSIVE Stripped(_)
Stripped(s) ==
    IF Len(s) = 0 THEN s
    ELSE IF Char(s, 1) \in {" ", "\t", "\n", "\r", "\f"} THEN Stripped(Drop(s, 1))
    ELSE IF Char(s, Len(s)) \in {" ", "\t", "\n", "\r", "\f"}
         THEN Stripped(SubSeq(s, 1, Len(s) - 1))
    ELSE s

\* the parts of s between the occurrences of c: the part that starts at
\* position from, then the parts after it
RECURSIVE PartsFrom(_, _, _, _)
PartsFrom(s, c, from, i) ==
    IF i > Len(s) THEN <<SubSeq(s, from, Len(s))>>
    ELSE IF Char(s, i) = c
         THEN <<SubSeq(s, from, i - 1)>> \o PartsFrom(s, c, i + 1, i + 1)
    ELSE PartsFrom(s, c, from, i + 1)

PartsOf(s, c) == PartsFrom(s, c, 1, 1)

\* the fields of a line
FieldsOf(s) == PartsOf(s, ";")

\* the key of a Key-Value or Key:v1,v2,v3 field: the text before the first
\* "-" or ":", the whole field when it has neither
RECURSIVE KeyOf(_)
KeyOf(f) ==
    IF Len(f) = 0 \/ Char(f, 1) \in {"-", ":"} THEN ""
    ELSE Char(f, 1) \o KeyOf(Drop(f, 1))

Keys == {"Time", "Latitude", "Longitude", "Satellites", "Acceleration"}

Decoded == rpc \in {"offer", "evict", "send", "spawn"}

DecodeFailed == rpc = "read" /\ res.err \notin {"nil", "read error"}

(***************************************************************************)
(* C7.  ParsePacket fails for every line that is empty once the white      *)
(* space around it is removed and for every line with fewer than 6         *)
(* semicolon-delimited fields (fewer than 5 semicolons), whatever the      *)
(* fields hold; "x;Acceleration:1,2" is such a line.                       *)
(***************************************************************************)
C7_ShortLineFails ==
    (/\ rpc # "parse"
     /\ \/ Stripped(line) = ""
        \/ CountChar(Stripped(line), ";") < 5
        \/ line = "x;Acceleration:1,2")
    => DecodeFailed

C7_Witness ==
    /\ DecodeFailed
    /\ line = "x;Acceleration:1,2"
    /\ res.err = "not enough fields"

(***************************************************************************)
(* C8.  Whenever ParsePacket succeeds, each of Time, Latitude, Longitude,  *)
(* Satellites and Acceleration was set from a field of the line, that is,  *)
(* the line has a field after the first that starts with that key.         *)
(***************************************************************************)
C8_FullyPopulated ==
    Decoded =>
        /\ Contains(Stripped(line), ";Time-")
        /\ Contains(Stripped(line), ";Latitude-")
        /\ Contains(Stripped(line), ";Longitude-")
        /\ Contains(Stripped(line), ";Satellites-")
        /\ Contains(Stripped(line), ";Acceleration")

(***************************************************************************)
(* C10.  For a line of at least 6 fields, a field after the first whose    *)
(* key is none of Time, Latitude, Longitude, Satellites, Acceleration is   *)
(* ignored: ParsePacket gives the same result, error and record, as for    *)
(* the line with that field replaced by an empty field.                    *)
(***************************************************************************)
C10_UnknownKeyIgnored ==
    LET fs == FieldsOf(Stripped(line)) IN
    (rpc # "parse" /\ Len(fs) >= 6) =>
        \A i \in 2..Len(fs) :
            KeyOf(fs[i]) \notin Keys =>
                ParsePacket(Join([fs EXCEPT ![i] = ""], ";")) = res

(***************************************************************************)
(* The records the pipeline holds: pending in the channel, handed to an    *)
(* auto-save goroutine, stored, or shown as the last packet.               *)
(***************************************************************************)
Range(q) == {q[i] : i \in 1..Len(q)}

Held ==
    Range(out) \cup tasks
        \cup {[seq |-> r.seq, src |-> r.src] : r \in Range(rows)}
        \cup (IF LastPacket.seq > 0 THEN {LastPacket} ELSE {})

(***************************************************************************)
(* C1.  Under every interleaving of the reader's enqueues and the frame    *)
(* loop's dequeues the channel holds between 0 and ChanCap records.        *)
(***************************************************************************)
C1_BufferBounded == Len(out) >= 0 /\ Len(out) <= ChanCap

\* the channel is at capacity after an enqueue that found it full
C1_Witness == Len(out) = ChanCap /\ nEnq > ChanCap

(***************************************************************************)
(* C2.  An enqueue that finds the channel full, with no dequeue in         *)
(* between, removes exactly the oldest pending record and appends the new  *)
(* one at the tail, so the channel is full again; every enqueue removes at *)
(* most one pending record, the head, and ends with the new record         *)
(* appended.                                                               *)
(***************************************************************************)
C2_FullEnqueue ==
    (rpc = "spawn" /\ snap.full /\ ~snap.deq) =>
        /\ Len(snap.buf) = ChanCap
        /\ out = Append(Tail(snap.buf), Cur)
        /\ Len(out) = ChanCap

C2_EnqueueStep ==
    /\ (rpc \in {"offer", "send"} /\ rpc' = "spawn") => out' = Append(out, Cur)
    /\ (rpc = "offer" /\ rpc' = "evict") => out' = out
    /\ (rpc = "evict" /\ rpc' = "send") =>
            (out' = out \/ (Len(out) > 0 /\ out' = Tail(out)))

C2_EvictOldest == []C2_FullEnqueue /\ [][C2_EnqueueStep]_vars

C2_Witness == rpc = "spawn" /\ snap.full /\ ~snap.deq /\ Len(out) = ChanCap

(***************************************************************************)
(* C3.  The enqueue never blocks: whenever the reader stands at the final  *)
(* send of the new record the channel has room for it, whatever the frame  *)
(* loop did or did not do in between.                                      *)
(***************************************************************************)
C3_SendNeverBlocks == rpc = "send" => Len(out) < ChanCap

\* at the final send with a consumer that has never received
C3_Witness ==
    rpc = "send" /\ Len(out) = ChanCap - 1 /\ LastPacket = NoPacket /\ upc = "idle"

(***************************************************************************)
(* C4.  Records leave the channel in the order in which they were decoded: *)
(* the pending records are in decode order and all later than the last     *)
(* record dequeued, and each record dequeued was decoded after the one     *)
(* dequeued before it, whatever was evicted in between.                    *)
(***************************************************************************)
C4_PendingInOrder ==
    /\ \A i \in 1..Len(out) : out[i].seq > LastPacket.seq
    /\ \A i, j \in 1..Len(out) : i < j => out[i].seq < out[j].seq

C4_DequeueStep == LastPacket' # LastPacket => LastPacket'.seq > LastPacket.seq

C4_DecodeOrderKept == []C4_PendingInOrder /\ [][C4_DequeueStep]_vars

\* the third record is dequeued right after the first: the second one was
\* evicted in between
C4_Witness ==
    /\ LastPacket.seq = 3
    /\ Len(Series) = 2
    /\ Series[1] = [m |-> 15, e |-> 1]

(***************************************************************************)
(* C5.  A read error or a line that fails to decode never ends the loop    *)
(* and leaves the channel, the auto-saves and the table as they were; the  *)
(* next well-formed line is decoded and enqueued; everything the pipeline  *)
(* holds was decoded from a well-formed line.                              *)
(***************************************************************************)
C5_OnlyGoodLinesHeld ==
    /\ \A e \in Held : e.src = GoodLine(e.seq)
    /\ rpc = "spawn" => (Cur \in Range(out) \/ LastPacket.seq >= Cur.seq)

C5_FailedStep ==
    /\ ((rpc = "read" /\ rpc' = "read" /\ nRead' # nRead) \/ (rpc = "parse" /\ rpc' = "read"))
            => UNCHANGED <<out, tasks, rows, nEnq, nSpawn>>
    /\ (rpc = "parse" /\ rpc' # rpc /\ line = GoodLine(nRead)) => rpc' = "offer"
    /\ rpc' = "done" => rpc \in {"open", "done"}

C5_BadLinesAbsorbed == []C5_OnlyGoodLinesHeld /\ [][C5_FailedStep]_vars

\* the first record is enqueued by the third read or a later one
C5_Witness == rpc = "spawn" /\ nRead >= 3 /\ nEnq = 1 /\ out = <<Cur>>

(***************************************************************************)
(* C6.  With a connected store every decoded record is enqueued and gets   *)
(* exactly one auto-save goroutine, started without waiting for any other; *)
(* an auto-save that succeeds, fails or stays pending changes neither the  *)
(* channel nor the reader's position.                                      *)
(***************************************************************************)
C6_OneSavePerRecord ==
    db => /\ nSpawn = (IF rpc = "spawn" THEN nEnq - 1 ELSE nEnq)
          /\ rpc = "spawn" => ENABLED Spawn

C6_Step ==
    /\ (db /\ rpc = "spawn" /\ rpc' = "read") => (Cur \notin tasks /\ tasks' = tasks \cup {Cur})
    /\ (rpc = "spawn" /\ rpc' = "read") => UNCHANGED out
    /\ nDone' # nDone => UNCHANGED <<rpc, nRead, line, res, out>>

C6_FireAndForget == []C6_OneSavePerRecord /\ [][C6_Step]_vars

\* the reader is back at its read with two auto-saves still pending
C6_Witness == db /\ rpc = "read" /\ nSpawn = 2 /\ Cardinality(tasks) = 2 /\ Len(out) = 2

(***************************************************************************)
(* C9.  A field with the key Acceleration that is not "Acceleration:"      *)
(* followed by exactly 3 comma-separated numbers makes the decode fail,    *)
(* and every record the pipeline holds has its acceleration vector filled  *)
(* whole from a well-formed acceleration field of its line: it came to be  *)
(* held as the record of a successful decode, and such a record carries    *)
(* the vector of a well-formed field of a line whose acceleration fields   *)
(* are all well formed.                                                    *)
(***************************************************************************)
AccelWellFormed(f) ==
    /\ Len(f) > 12
    /\ SubSeq(f, 1, 13) = "Acceleration:"
    /\ \E c \in {PartsOf(Drop(f, 13), ",")} :
        /\ Len(c) = 3
        /\ \A i \in 1..3 : ParseFloat(c[i]).err = "nil"

\* the positions that bound the fields of s: those of its semicolons, the
\* one before its first character and the one after its last
FieldBounds(s) == {i \in 1..Len(s) : Char(s, i) = ";"} \cup {0, Len(s) + 1}

\* f has the key Acceleration: KeyOf(f) = "Acceleration"
HasAccelKey(f) ==
    /\ Len(f) >= 12
    /\ SubSeq(f, 1, 12) = "Acceleration"
    /\ (Len(f) = 12 \/ Char(f, 13) \in {"-", ":"})

\* the fields of a line after the first that have the key Acceleration
AccelFields(ln) ==
    UNION { UNION { { f \in { SubSeq(s, a + 1, b - 1) :
                                b \in { k \in bs : k > a /\ \A j \in bs : j <= a \/ j >= k } } :
                          HasAccelKey(f) } :
                      a \in { k \in bs : k > 0 /\ k <= Len(s) } } :
            <<s, bs>> \in { <<t, FieldBounds(t)>> : t \in {Stripped(ln)} } }

\* the vector written in a well-formed acceleration field
AccelVector(f) ==
    CHOOSE v \in { [i \in 1..3 |-> ParseFloat(c[i]).f] :
                      c \in {PartsOf(Drop(f, 13), ",")} } : TRUE

\* the source line and the acceleration vector of everything the pipeline
\* holds: buffered, handed to the store, stored, or shown
HeldVectors ==
    {<<e.src, e.pkt.Acceleration>> :
        e \in Range(out) \cup tasks
               \cup (IF LastPacket.seq > 0 THEN {LastPacket} ELSE {})}
    \cup {<<r.src, <<r.AccelerationX, r.AccelerationY, r.AccelerationZ>>>> :
            r \in Range(rows)}

\* what strconv.ParseFloat makes of each component of field f when f is
\* "Acceleration:" followed by exactly 3 comma-separated components, and
\* the empty sequence when it is not
AccelRead(f) ==
    IF Len(f) > 12 /\ SubSeq(f, 1, 13) = "Acceleration:"
    THEN CHOOSE r \in { IF Len(c) = 3 THEN [i \in 1..3 |-> ParseFloat(c[i])] ELSE <<>> :
                           c \in {PartsOf(Drop(f, 13), ",")} } : TRUE
    ELSE <<>>

\* r reads a well-formed acceleration field: AccelWellFormed(f) for
\* r = AccelRead(f)
AllNumbers(r) == Len(r) = 3 /\ \A i \in 1..3 : r[i].err = "nil"

\* after a successful decode every acceleration field of the line is well
\* formed and the record carries the whole vector of one of them
C9_DecodedWhole ==
    Decoded => \E rs \in {{AccelRead(f) : f \in AccelFields(line)}} :
        /\ \A r \in rs : AllNumbers(r)
        /\ \E r \in rs : res.p.Acceleration = <<r[1].f, r[2].f, r[3].f>>

\* a vector comes to be held only as the vector of the record just decoded
C9_HeldStep ==
    HeldVectors' \subseteq HeldVectors \cup
        (IF Decoded THEN {<<line, res.p.Acceleration>>} ELSE {})

C9_WholeVectorOnly == []C9_DecodedWhole /\ [][C9_HeldStep]_vars

\* a decode that failed on the third component after storing two, with
\* nothing enqueued or handed to the store
C9_Witness ==
    /\ DecodeFailed
    /\ \E f \in AccelFields(line) : ~AccelWellFormed(f)
    /\ res.p.Acceleration[1] # Zero /\ res.p.Acceleration[3] = Zero
    /\ nEnq = 0 /\ out = <<>> /\ tasks = {} /\ rows = <<>>


(***************************************************************************)
(* The value a Key-Value or Key:v1,v2,v3 field with a recognized key       *)
(* carries, read off the field's text.                                     *)
(***************************************************************************)
\* the text after the key and its delimiter
ValueText(f) == Drop(f, Len(KeyOf(f)) + 1)

\* the field of record p that the recognized key k names
FieldOf(p, k) ==
    CASE k = "Time" -> p.Time
      [] k = "Latitude" -> p.Latitude
      [] k = "Longitude" -> p.Longitude
      [] k = "Satellites" -> p.Satellites
      [] k = "Acceleration" -> p.Acceleration

\* the value written in field f, whose key is the recognized key k
ValueOf(k, f) ==
    CASE k = "Time" -> ValueText(f)
      [] k \in {"Latitude", "Longitude"} -> ParseFloat(ValueText(f)).f
      [] k = "Satellites" -> Atoi(ValueText(f)).n
      [] k = "Acceleration" -> AccelVector(f)

\* the positions after the first of the fields of fs with key k
Occurrences(fs, k) == {i \in 2..Len(fs) : KeyOf(fs[i]) = k}

Last(S) == CHOOSE i \in S : \A j \in S : j <= i

\* fs with the fields at positions i and j exchanged
Swapped(fs, i, j) == [fs EXCEPT ![i] = fs[j], ![j] = fs[i]]

(***************************************************************************)
(* C11.  When ParsePacket succeeds, each recognized key that occurs after  *)
(* the first field gives the record the value of its last occurrence, and  *)
(* exchanging two fields after the first that have distinct recognized     *)
(* keys, each occurring once, leaves the decoded record the same.          *)
(***************************************************************************)
C11_OrderFreeLastWins ==
    Decoded =>
        \E fs \in {FieldsOf(Stripped(line))} :
            /\ \A k \in Keys :
                Occurrences(fs, k) # {} =>
                    FieldOf(res.p, k) = ValueOf(k, fs[Last(Occurrences(fs, k))])
            /\ \A i, j \in 2..Len(fs) :
                (/\ i < j
                 /\ KeyOf(fs[i]) \in Keys /\ KeyOf(fs[j]) \in Keys
                 /\ KeyOf(fs[i]) # KeyOf(fs[j])
                 /\ Cardinality(Occurrences(fs, KeyOf(fs[i]))) = 1
                 /\ Cardinality(Occurrences(fs, KeyOf(fs[j]))) = 1)
                    => ParsePacket(Join(Swapped(fs, i, j), ";")) = res


(***************************************************************************)
(* The decoder on lines of the documented shape                            *)
(*   first;Time-T;Latitude-A;Longitude-O;Satellites-S;Acceleration:X,Y,Z   *)
(* Numbers and counts are given as the text on the wire together with the  *)
(* value that text denotes.                                                *)
(***************************************************************************)
FirstFields == {"ignored", "", "Time-99:99:99", "Satellites-x", "Acceleration:1,2"}

Times == {"12:00:00", "07:30:15 ", "a-b:c"}

Numbers ==
    { <<"54.1", [m |-> 541, e |-> 1]>>, <<"-3.25", [m |-> -325, e |-> 2]>>,
      <<"0", [m |-> 0, e |-> 0]>>, <<"1e2", [m |-> 100, e |-> 0]>>,
      <<"+.5", [m |-> 5, e |-> 1]>>, <<"25.200", [m |-> 252, e |-> 1]>> }

Counts == { <<"9", 9>>, <<"0", 0>>, <<"+12", 12>>, <<"007", 7>> }

Triples ==
    { <<"0.1", "-0.2", "0.3">>, <<"0", "0", "0">>,
      <<"1e2", "+.5", "-3.25">>, <<"54.1", "25.200", "54.1">> }

NumberTexts == {n[1] : n \in Numbers} \cup {"0.1", "-0.2", "0.3"}

\* the value a number text denotes
NumberValue(t) ==
    CASE t = "0.1" -> [m |-> 1, e |-> 1]
      [] t = "-0.2" -> [m |-> -2, e |-> 1]
      [] t = "0.3" -> [m |-> 3, e |-> 1]
      [] OTHER -> (CHOOSE n \in Numbers : n[1] = t)[2]

CountValue(t) == (CHOOSE n \in Counts : n[1] = t)[2]

ShapedLines ==
    { w[1] \o Join(<<f, "Time-" \o t, "Latitude-" \o a[1], "Longitude-" \o o[1],
                     "Satellites-" \o c[1],
                     "Acceleration:" \o Join(v, ",")>>, ";") \o w[2] :
        w \in {<<"", "">>, <<" \t", "\r\n">>},
        f \in FirstFields, t \in Times, a \in Numbers, o \in Numbers,
        c \in Counts, v \in Triples }

InitShape ==
    /\ rpc = "parse" /\ nRead = 1 /\ line \in ShapedLines /\ res = NoResult
    /\ out = <<>>
    /\ db = FALSE /\ closed = FALSE
    /\ tasks = {} /\ rows = <<>> /\ nextId = 1 /\ nDone = 0
    /\ upc = "idle" /\ LastPacket = NoPacket /\ Series = <<>> /\ LogLines = <<>>
    /\ PortOpen = FALSE
    /\ snap = NoSnap /\ nEnq = 0 /\ nSpawn = 0
    /\ now = 0 /\ got = NoAnswer /\ listed = NoList
    /\ ids = <<>> /\ cleared = "never" /\ deqd = <<>>
    /\ DBPacketCount = 0 /\ DBLastPacket = NoStored /\ DBSeries = <<>>
    /\ files = NoFiles /\ made = NoFiles /\ logd = <<>>
    /\ acts = <<>> /\ tally = NoTally

SpecShape == InitShape /\ [][Decode]_vars

\* fs are the fields of a line of the documented shape
Shaped(fs) ==
    /\ Len(fs) = 6
    /\ Len(fs[2]) >= 5 /\ SubSeq(fs[2], 1, 5) = "Time-"
    /\ Len(fs[3]) > 9 /\ SubSeq(fs[3], 1, 9) = "Latitude-"
    /\ Drop(fs[3], 9) \in NumberTexts
    /\ Len(fs[4]) > 10 /\ SubSeq(fs[4], 1, 10) = "Longitude-"
    /\ Drop(fs[4], 10) \in NumberTexts
    /\ Len(fs[5]) > 11 /\ SubSeq(fs[5], 1, 11) = "Satellites-"
    /\ Drop(fs[5], 11) \in {c[1] : c \in Counts}
    /\ Len(fs[6]) > 13 /\ SubSeq(fs[6], 1, 13) = "Acceleration:"
    /\ \E v \in {PartsOf(Drop(fs[6], 13), ",")} :
        Len(v) = 3 /\ \A i \in 1..3 : v[i] \in NumberTexts

\* the record that the fields of a line of the documented shape spell out
ShapedRecord(fs) ==
    [Time |-> Drop(fs[2], 5),
     Latitude |-> NumberValue(Drop(fs[3], 9)),
     Longitude |-> NumberValue(Drop(fs[4], 10)),
     Satellites |-> CountValue(Drop(fs[5], 11)),
     Acceleration |->
        CHOOSE a \in { <<NumberValue(v[1]), NumberValue(v[2]), NumberValue(v[3])>> :
                         v \in {PartsOf(Drop(fs[6], 13), ",")} } : TRUE]

(***************************************************************************)
(* C12.  A line of the shape                                               *)
(* first;Time-T;Latitude-A;Longitude-O;Satellites-S;Acceleration:X,Y,Z     *)
(* never fails to decode, and decodes to the record with Time T, Latitude  *)
(* A, Longitude O, Satellites S and Acceleration (X, Y, Z), whatever its   *)
(* first field is.                                                         *)
(***************************************************************************)
C12_ShapedLineDecodes ==
    (Decoded \/ DecodeFailed) =>
        \A fs \in {FieldsOf(Stripped(line))} :
            Shaped(fs) => Decoded /\ res.p = ShapedRecord(fs)

\* the documented example behind a first field that reads like a malformed
\* acceleration field
C12_Witness ==
    /\ Decoded
    /\ line = "Acceleration:1,2;Time-12:00:00;Latitude-54.1;Longitude-25.200;Satellites-9;Acceleration:0.1,-0.2,0.3"
    /\ res.p = [Time |-> "12:00:00", Latitude |-> [m |-> 541, e |-> 1],
                Longitude |-> [m |-> 252, e |-> 1], Satellites |-> 9,
                Acceleration |-> <<[m |-> 1, e |-> 1], [m |-> -2, e |-> 1],
                                   [m |-> 3, e |-> 1]>>]


(***************************************************************************)
(* C13.  Every record that ParsePacket returns with a nil error has a      *)
(* satellite count that is not negative.                                   *)
(***************************************************************************)
C13_SatellitesNonNegative == Decoded => res.p.Satellites >= 0


(***************************************************************************)
(* The packets table behind Database, on its own: InsertPacket calls that  *)
(* run concurrently, DeleteAllPackets and the four queries, against a      *)
(* server whose clock moves in whole seconds.                              *)
(***************************************************************************)
\* seconds the server's clock runs for
MaxNow == 1

\* the limit arguments tried: negative, zero, below, at and above the count
Limits == -1..(MaxDone + 1)

\* the packet handed to the n-th InsertPacket call, p being the packet
\* decoded from the n-th line; the second one carries a z value with more
\* digits than a float32 holds
StorePacket(n, p) ==
    IF n = 2 THEN [p EXCEPT !.Acceleration[3] = [m |-> 12345678, e |-> 7]] ELSE p

\* the server's clock passes a second
Tick ==
    /\ now < MaxNow
    /\ now' = now + 1
    /\ UNCHANGED <<readerVars, out, db, closed, storeVars, uiVars, histVars,
                   got, listed, ids, cleared, deqd,
                   dbuiVars, fileVars, logd, clickVars>>

\* db.InsertPacket(p) is called, at most as often as the store answers; the
\* statement is answered by InsertOk or InsertFail
CallInsert ==
    /\ db /\ nSpawn < MaxDone
    /\ \E l \in {GoodLine(nSpawn + 1)} : \E r \in {ParsePacket(l)} :
        tasks' = tasks \cup {[seq |-> nSpawn + 1, src |-> l,
                              pkt |-> StorePacket(nSpawn + 1, r.p)]}
    /\ nSpawn' = nSpawn + 1
    /\ UNCHANGED <<readerVars, out, db, closed, rows, nextId, nDone, uiVars,
                   snap, nEnq, moreVars>>

\* the AUTO_INCREMENT counter after a statement that resets it
NextIdRestarted(n) == 1

\* the AUTO_INCREMENT counter after DELETE FROM packets, which keeps it
NextIdAfterDelete(n) == n

\* DeleteAllOk leaving the newest row in the table
DeleteAllButNewest ==
    /\ db /\ ~closed
    /\ rows' = IF Len(rows) > 0 THEN <<rows[Len(rows)]>> ELSE <<>>
    /\ nextId' = NextIdAfterDelete(nextId)
    /\ cleared' = "emptied"
    /\ got' = NoAnswer /\ listed' = NoList
    /\ UNCHANGED <<readerVars, out, db, closed, tasks, nDone, uiVars, histVars,
                   now, ids, deqd, dbuiVars, fileVars, logd, clickVars>>

\* DeleteAllPackets: DELETE FROM packets succeeds
DeleteAllOk ==
    /\ db /\ ~closed
    /\ rows' = <<>>
    /\ nextId' = NextIdAfterDelete(nextId)
    /\ cleared' = "emptied"
    /\ got' = NoAnswer /\ listed' = NoList
    /\ UNCHANGED <<readerVars, out, db, closed, tasks, nDone, uiVars, histVars,
                   now, ids, deqd, dbuiVars, fileVars, logd, clickVars>>

\* DeleteAllPackets: the statement fails and the error is returned
DeleteAllFail ==
    /\ db
    /\ got' = [NoAnswer EXCEPT !.op = "DeleteAllPackets",
                               !.err = "failed to delete all packets"]
    /\ UNCHANGED <<readerVars, out, db, closed, storeVars, uiVars, histVars,
                   now, listed, ids, cleared, deqd,
                   dbuiVars, fileVars, logd, clickVars>>

RECURSIVE Perms(_)
Perms(S) ==
    IF S = {} THEN {<<>>}
    ELSE UNION { { <<x>> \o q : q \in Perms(S \ {x}) } : x \in S }

\* the rows of t in any order, as a query without ORDER BY may return them
Unordered(t) == Perms({t[i] : i \in 1..Len(t)})

\* the orders in which ORDER BY created_at DESC may return the rows of t:
\* rows with equal created_at come in any order
OrderByCreatedDesc(t) ==
    { q \in Perms({t[i] : i \in 1..Len(t)}) :
        \A i \in 1..(Len(q) - 1) : q[i].created_at >= q[i + 1].created_at }

\* the same for ORDER BY created_at ASC
OrderByCreatedAsc(t) ==
    { q \in Perms({t[i] : i \in 1..Len(t)}) :
        \A i \in 1..(Len(q) - 1) : q[i].created_at <= q[i + 1].created_at }

\* if limit > 0 { query += " LIMIT n" }
Limited(q, limit) ==
    IF limit > 0 /\ Len(q) > limit THEN SubSeq(q, 1, limit) ELSE q

\* the z values of a sequence of rows
ZOf(q) == [i \in 1..Len(q) |-> q[i].AccelerationZ]

\* series = append(series, float32(value)) over the rows
Float32Of(q) == [i \in 1..Len(q) |-> Float32(q[i])]

\* Database.GetPackets(limit)
GetPackets ==
    /\ db /\ ~closed
    /\ \E limit \in Limits :
        \/ \E q \in OrderByCreatedDesc(rows) :
            /\ got' = [NoAnswer EXCEPT !.op = "GetPackets", !.limit = limit,
                                       !.packets = Limited(q, limit)]
            /\ listed' = IF limit <= 0 THEN [some |-> TRUE, zs |-> ZOf(q)] ELSE listed
        \/ /\ got' = [NoAnswer EXCEPT !.op = "GetPackets", !.limit = limit,
                                      !.err = "failed to query packets"]
           /\ listed' = listed
    /\ UNCHANGED <<readerVars, out, db, closed, storeVars, uiVars, histVars,
                   now, ids, cleared, deqd,
                   dbuiVars, fileVars, logd, clickVars>>

\* Database.GetLatestPacket: sql.ErrNoRows gives (nil, nil)
GetLatestPacket ==
    /\ db /\ ~closed
    /\ \/ \E q \in OrderByCreatedDesc(rows) :
            got' = [NoAnswer EXCEPT !.op = "GetLatestPacket",
                                    !.packets = Limited(q, 1)]
       \/ got' = [NoAnswer EXCEPT !.op = "GetLatestPacket",
                                  !.err = "failed to get latest packet"]
    /\ UNCHANGED <<readerVars, out, db, closed, storeVars, uiVars, histVars,
                   now, listed, ids, cleared, deqd,
                   dbuiVars, fileVars, logd, clickVars>>

\* Database.GetPacketCount
GetPacketCount ==
    /\ db /\ ~closed
    /\ \/ got' = [NoAnswer EXCEPT !.op = "GetPacketCount", !.count = Len(rows)]
       \/ got' = [NoAnswer EXCEPT !.op = "GetPacketCount",
                                  !.err = "failed to get packet count"]
    /\ UNCHANGED <<readerVars, out, db, closed, storeVars, uiVars, histVars,
                   now, listed, ids, cleared, deqd,
                   dbuiVars, fileVars, logd, clickVars>>

\* Database.GetAccelerationSeries(limit)
GetAccelerationSeries ==
    /\ db /\ ~closed
    /\ \E limit \in Limits :
        \/ \E q \in OrderByCreatedAsc(rows) :
            got' = [NoAnswer EXCEPT !.op = "GetAccelerationSeries", !.limit = limit,
                                    !.series = Float32Of(ZOf(Limited(q, limit)))]
        \/ got' = [NoAnswer EXCEPT !.op = "GetAccelerationSeries", !.limit = limit,
                                   !.err = "failed to query acceleration series"]
    /\ UNCHANGED <<readerVars, out, db, closed, storeVars, uiVars, histVars,
                   now, listed, ids, cleared, deqd,
                   dbuiVars, fileVars, logd, clickVars>>

InitStore ==
    /\ rpc = "done" /\ nRead = 0 /\ line = NoLine /\ res = NoResult
    /\ out = <<>>
    /\ db = TRUE /\ closed = FALSE
    /\ tasks = {} /\ rows = <<>> /\ nextId = 1 /\ nDone = 0
    /\ upc = "idle" /\ LastPacket = NoPacket /\ Series = <<>> /\ LogLines = <<>>
    /\ PortOpen = FALSE
    /\ snap = NoSnap /\ nEnq = 0 /\ nSpawn = 0
    /\ now = 0 /\ got = NoAnswer /\ listed = NoList
    /\ ids = <<>> /\ cleared = "never" /\ deqd = <<>>
    /\ DBPacketCount = 0 /\ DBLastPacket = NoStored /\ DBSeries = <<>>
    /\ files = NoFiles /\ made = NoFiles /\ logd = <<>>
    /\ acts = <<>> /\ tally = NoTally

NextStore ==
    \/ Tick \/ CallInsert \/ InsertOk \/ InsertFail
    \/ DeleteAllOk \/ DeleteAllFail
    \/ GetPackets \/ GetLatestPacket \/ GetPacketCount \/ GetAccelerationSeries

SpecStore == InitStore /\ [][NextStore]_vars


(***************************************************************************)
(* C14.  The identifiers that successful inserts returned, in the order    *)
(* they were assigned and with those of deleted rows included, are         *)
(* strictly increasing: pairwise distinct, each above all earlier ones,    *)
(* none assigned again after DeleteAllPackets; the rows of the table carry *)
(* distinct identifiers out of them.                                       *)
(***************************************************************************)
C14_IdsNeverReused ==
    /\ \A i, j \in 1..Len(ids) : i < j => ids[i] < ids[j]
    /\ \A i \in 1..Len(rows) : rows[i].id \in Range(ids)
    /\ \A i, j \in 1..Len(rows) : i # j => rows[i].id # rows[j].id

\* an insert, a DeleteAllPackets, and an insert that got the next identifier
C14_Witness ==
    /\ ids = <<1, 2>> /\ cleared = "refilled"
    /\ Len(rows) = 1 /\ rows[1].id = 2

Min(a, b) == IF a < b THEN a ELSE b

(***************************************************************************)
(* C15.  A successful GetPackets(limit) returns rows of the table, each    *)
(* once, in non-increasing order of created_at; all of them when           *)
(* limit <= 0 and min(limit, count) of them otherwise, and then no row     *)
(* left out was created later than a row returned.                         *)
(***************************************************************************)
C15_ListNewestFirst ==
    (got.op = "GetPackets" /\ got.err = "nil") =>
        \E q \in {got.packets} :
            /\ \A i \in 1..Len(q) : q[i] \in Range(rows)
            /\ \A i, j \in 1..Len(q) : i # j => q[i] # q[j]
            /\ \A i, j \in 1..Len(q) : i < j => q[i].created_at >= q[j].created_at
            /\ Len(q) = IF got.limit <= 0 THEN Len(rows) ELSE Min(got.limit, Len(rows))
            /\ \A r \in Range(rows) \ Range(q) :
                \A i \in 1..Len(q) : r.created_at <= q[i].created_at

\* two rows created in different seconds and GetPackets(1) returning the
\* later one alone
C15_Witness ==
    /\ got.op = "GetPackets" /\ got.err = "nil" /\ got.limit = 1
    /\ Len(rows) = 2 /\ rows[1].created_at < rows[2].created_at
    /\ got.packets = <<rows[2]>>

(***************************************************************************)
(* C16.  A successful GetLatestPacket returns the row inserted last when   *)
(* the table has rows, and no row, with a nil error, when it has none.     *)
(***************************************************************************)
C16_LatestIsLastInserted ==
    (got.op = "GetLatestPacket" /\ got.err = "nil") =>
        got.packets = IF Len(rows) > 0 THEN <<rows[Len(rows)]>> ELSE <<>>

(***************************************************************************)
(* C17.  While no DeleteAllPackets has succeeded and no InsertPacket call  *)
(* is running, a successful GetPacketCount returns the number of inserts   *)
(* that returned success; and an insert that returns an error leaves the   *)
(* table as it was.                                                        *)
(***************************************************************************)
C17_CountAfterInserts ==
    (cleared = "never" /\ tasks = {} /\ got.op = "GetPacketCount" /\ got.err = "nil")
        => got.count = Len(ids)

C17_FailedInsertStep == (nDone' = nDone + 1 /\ ids' = ids) => rows' = rows

C18_EmptyAfterDeleteAll ==
    cleared = "emptied" =>
        /\ rows = <<>>
        /\ got.err = "nil" =>
            got.count = 0 /\ got.packets = <<>> /\ got.series = <<>>

\* a table that had a row, emptied, and GetLatestPacket answering none
C18_Witness ==
    /\ cleared = "emptied" /\ Len(ids) > 0
    /\ got.op = "GetLatestPacket" /\ got.err = "nil" /\ got.packets = <<>>

Reverse(q) == [i \in 1..Len(q) |-> q[Len(q) + 1 - i]]

(***************************************************************************)
(* C19.  A successful GetAccelerationSeries(limit) returns the z values,   *)
(* as float32, of rows of the table in non-decreasing order of created_at: *)
(* of all rows when limit <= 0, of min(limit, count) rows otherwise, none  *)
(* of them created later than a row left out; and with limit <= 0 it is    *)
(* the reverse of the z values of an unlimited GetPackets on the same      *)
(* table.                                                                  *)
(***************************************************************************)
C19_SeriesReversesList ==
    (got.op = "GetAccelerationSeries" /\ got.err = "nil") =>
        /\ \E q \in Unordered(rows) :
            \E n \in {IF got.limit <= 0 THEN Len(rows) ELSE Min(got.limit, Len(rows))} :
                /\ got.series = Float32Of(ZOf(SubSeq(q, 1, n)))
                /\ \A i, j \in 1..Len(q) : i < j => q[i].created_at <= q[j].created_at
        /\ (got.limit <= 0 /\ listed.some) =>
                got.series = Reverse(Float32Of(listed.zs))


(***************************************************************************)
(* The reader and the frame loop without a store (NewDatabase failed, db   *)
(* is nil), with the Clear button.                                         *)
(***************************************************************************)
InitFrame ==
    /\ rpc = "open" /\ nRead = 0 /\ line = NoLine /\ res = NoResult
    /\ out = <<>>
    /\ db = FALSE /\ closed = FALSE
    /\ tasks = {} /\ rows = <<>> /\ nextId = 1 /\ nDone = 0
    /\ upc = "idle" /\ LastPacket = NoPacket /\ Series = <<>> /\ LogLines = <<>>
    /\ PortOpen = FALSE
    /\ snap = NoSnap /\ nEnq = 0 /\ nSpawn = 0
    /\ now = 0 /\ got = NoAnswer /\ listed = NoList
    /\ ids = <<>> /\ cleared = "never" /\ deqd = <<>>
    /\ DBPacketCount = 0 /\ DBLastPacket = NoStored /\ DBSeries = <<>>
    /\ files = NoFiles /\ made = NoFiles /\ logd = <<>>
    /\ acts = <<>> /\ tally = NoTally

NextFrame ==
    \/ OpenPort \/ ReadError \/ ReadLine \/ Decode
    \/ Offer \/ Evict \/ Send \/ Spawn
    \/ FrameStart \/ DrainRecv \/ DrainDone \/ FrameEnd \/ FrameEndCleared \/ Destroy

SpecFrame == InitFrame /\ [][NextFrame]_vars

(***************************************************************************)
(* C20.  The live series never holds more than SeriesCap samples, and it   *)
(* is the z-axis accelerations, as float32, of the last min(n, SeriesCap)  *)
(* of the n packets the frame loop received since the last clear, in the   *)
(* order received.                                                         *)
(***************************************************************************)
C20_SeriesIsRecentTail ==
    /\ Len(Series) <= SeriesCap
    /\ \E n \in {Len(deqd)} : \E k \in {Min(n, SeriesCap)} :
        /\ Len(Series) = k
        /\ \A i \in 1..k : Series[i] = Float32(deqd[n - k + i].pkt.Acceleration[3])

\* a frame ended with one packet more received than the series holds: the
\* oldest sample is gone, the rest moved up
C20_Witness ==
    /\ upc = "idle"
    /\ Len(deqd) = SeriesCap + 1
    /\ Len(Series) = SeriesCap
    /\ Series[1] = deqd[2].pkt.Acceleration[3]
    /\ Series[SeriesCap] = deqd[SeriesCap + 1].pkt.Acceleration[3]


(***************************************************************************)
(* The export engine: GenerateExportFilename, SavePacketsToCSV and         *)
(* SavePacketsToJSON.  The clock that names the files is the clock that    *)
(* stamps the rows (the store is on 127.0.0.1 by default); the run starts  *)
(* at 2026-01-01 00:00:00 and stays within the minute.                     *)
(***************************************************************************)
\* exports that create a file in one run
MaxExports == 2

\* the limit arguments passed to an export: all rows, and one row
ExportLimits == {0, 1}

\* time.Now().Format("20060102_150405")
ExportStamp(t) == "20260101_0000" \o PadNat(t, 2)

\* GenerateExportFilename with a timestamp that stops at the minute
GenerateExportFilenameByMinute(format, t) ==
    "komkomunikacijos_data_" \o "20260101_0000" \o "." \o format

\* GenerateExportFilename(format) called at second t
GenerateExportFilename(format, t) ==
    "komkomunikacijos_data_" \o ExportStamp(t) \o "." \o format

\* p.CreatedAt.Format("2006-01-02 15:04:05")
CsvTime(t) == "2026-01-01 00:00:" \o PadNat(t, 2)

CsvHeader ==
    << "ID", "Time", "Latitude", "Longitude", "Satellites",
       "AccelerationX", "AccelerationY", "AccelerationZ",
       "CreatedAt", "UpdatedAt" >>

\* the record written for one stored packet
CsvRow(p) ==
    << Itoa(p.id), p.Time,
       FormatFixed(p.Latitude, 6), FormatFixed(p.Longitude, 6),
       Itoa(p.Satellites),
       FormatFixed(p.AccelerationX, 3), FormatFixed(p.AccelerationY, 3),
       FormatFixed(p.AccelerationZ, 3),
       CsvTime(p.created_at), CsvTime(p.updated_at) >>

\* CsvRecords writing the header only when there are rows
CsvRecordsBare(q) ==
    IF Len(q) = 0 THEN <<>> ELSE <<CsvHeader>> \o [i \in 1..Len(q) |-> CsvRow(q[i])]

\* the records handed to the csv.Writer: the header, then a row per packet
CsvRecords(q) == <<CsvHeader>> \o [i \in 1..Len(q) |-> CsvRow(q[i])]

\* encoding/json of a float64: the shortest decimal that reads back
JsonNumber(f) == FormatFixed(f, f.e)

\* encoding/json of a time.Time: RFC 3339
JsonTime(t) == "\"2026-01-01T00:00:" \o PadNat(t, 2) \o "Z\""

\* the members of the object encoded for one stored packet, in the order of
\* StoredPacket's fields and under its json tags
JsonObject(p) ==
    << "\"id\": " \o Itoa(p.id),
       "\"time\": \"" \o p.Time \o "\"",
       "\"latitude\": " \o JsonNumber(p.Latitude),
       "\"longitude\": " \o JsonNumber(p.Longitude),
       "\"satellites\": " \o Itoa(p.Satellites),
       "\"acceleration_x\": " \o JsonNumber(p.AccelerationX),
       "\"acceleration_y\": " \o JsonNumber(p.AccelerationY),
       "\"acceleration_z\": " \o JsonNumber(p.AccelerationZ),
       "\"created_at\": " \o JsonTime(p.created_at),
       "\"updated_at\": " \o JsonTime(p.updated_at) >>

\* a file's content: the token it opens with and its items, which are the
\* records of a CSV file and the objects of a JSON document
Content(format, marker, items) ==
    [format |-> format, marker |-> marker, items |-> items]

\* the file as os.Create leaves it
Empty(format) == Content(format, "", <<>>)

\* csv.Writer output once flushed
CsvContent(q) == Content("csv", "", CsvRecords(q))

\* encoder.Encode(packets): GetPackets returns a nil slice when the query has
\* no rows (var packets []StoredPacket, part_001:129), and a nil slice is
\* encoded as null; a slice with elements is encoded as an array
JsonContent(q) ==
    IF Len(q) = 0 THEN Content("json", "null", <<>>)
    ELSE Content("json", "[", [i \in 1..Len(q) |-> JsonObject(q[i])])

\* os.Create(name) followed by the writes that reached the file
WriteFile(fs, name, content) ==
    {f \in fs : f.name # name} \cup {[name |-> name, content |-> content]}

\* the content of the file called name, as a sequence of none or one
FileNamed(fs, name) ==
    IF \E f \in fs : f.name = name
    THEN <<(CHOOSE f \in fs : f.name = name).content>>
    ELSE <<>>

\* the steps of an export that can fail
CsvFaults == {"GetPackets", "Create", "Write", "Flush"}
JsonFaults == {"GetPackets", "Create", "Encode"}

\* what one step of an export gives: the error returned, the files
\* afterwards, the packets listed, the step that failed and whether the file
\* was created
Outcome(err, fs, q, fault, created) ==
    [err |-> err, files |-> fs, packets |-> q, fault |-> fault, created |-> created]

\* CsvExport with os.Create called before GetPackets
CsvExportCreateFirst(qs, fs, name, fault) ==
    IF fault = "GetPackets"
    THEN {Outcome("failed to get packets", WriteFile(fs, name, Empty("csv")),
                  <<>>, fault, FALSE)}
    ELSE { IF fault = "Create"
           THEN Outcome("failed to create file", fs, q, fault, FALSE)
           ELSE IF fault = "Write" /\ Len(q) > 0
           THEN Outcome("failed to write row",
                        WriteFile(fs, name, Empty("csv")), q, fault, TRUE)
           ELSE IF fault = "Flush"
           THEN Outcome("nil", WriteFile(fs, name, Empty("csv")), q, fault, TRUE)
           ELSE Outcome("nil", WriteFile(fs, name, CsvContent(q)), q, "none", TRUE)
         : q \in qs }

\* SavePacketsToCSV(name, limit) with the files fs when GetPackets(limit)
\* can return any of the lists in qs and the step fault fails.  A write fails only when the buffered writer spills to
\* the file, which the header on its own never does; the deferred
\* writer.Flush() has no error result and SavePacketsToCSV does not ask
\* writer.Error(), so a failed flush leaves nil to return.
CsvExport(qs, fs, name, fault) ==
    IF fault = "GetPackets"
    THEN {Outcome("failed to get packets", fs, <<>>, fault, FALSE)}
    ELSE { IF fault = "Create"
           THEN Outcome("failed to create file", fs, q, fault, FALSE)
           ELSE IF fault = "Write" /\ Len(q) > 0
           THEN Outcome("failed to write row",
                        WriteFile(fs, name, Empty("csv")), q, fault, TRUE)
           ELSE IF fault = "Flush"
           THEN Outcome("nil", WriteFile(fs, name, Empty("csv")), q, fault, TRUE)
           ELSE Outcome("nil", WriteFile(fs, name, CsvContent(q)), q, "none", TRUE)
         : q \in qs }

\* SavePacketsToJSON(name, limit) likewise; the encoder writes to the file
\* itself and its error is returned
JsonExport(qs, fs, name, fault) ==
    IF fault = "GetPackets"
    THEN {Outcome("failed to get packets", fs, <<>>, fault, FALSE)}
    ELSE { IF fault = "Create"
           THEN Outcome("failed to create file", fs, q, fault, FALSE)
           ELSE IF fault = "Encode"
           THEN Outcome("failed to encode JSON",
                        WriteFile(fs, name, Empty("json")), q, fault, TRUE)
           ELSE Outcome("nil", WriteFile(fs, name, JsonContent(q)), q, "none", TRUE)
         : q \in qs }

\* the exports that created a file so far, with the one of this format and
\* second counted once more (up to twice)
Made(m, name, format, at) ==
    LET old == {e \in m : e.name = name /\ e.format = format /\ e.at = at} IN
    (m \ old) \cup {[name |-> name, format |-> format, at |-> at,
                     n |-> IF old = {} THEN 1 ELSE 2]}

RECURSIVE Exported(_)
\* the number of exports counted in m
Exported(m) ==
    IF m = {} THEN 0
    ELSE LET e == CHOOSE x \in m : TRUE IN e.n + Exported(m \ {e})

\* an export of the given format called at the present second with the name
\* GenerateExportFilename gives, as the Save buttons call it
SavePackets(format, op, limit, o) ==
    /\ files' = o.files
    /\ made' = IF o.created
               THEN Made(made, GenerateExportFilename(format, now), format, now)
               ELSE made
    /\ got' = [NoAnswer EXCEPT !.op = op, !.limit = limit, !.err = o.err,
                               !.packets = o.packets, !.fault = o.fault,
                               !.name = GenerateExportFilename(format, now),
                               !.replaced =
                                   IF o.created
                                   THEN FileNamed(files, GenerateExportFilename(format, now))
                                   ELSE <<>>]
    /\ UNCHANGED <<readerVars, out, db, closed, storeVars, uiVars, histVars,
                   now, listed, ids, cleared, deqd, dbuiVars, logd, clickVars>>

\* Database.SavePacketsToCSV(GenerateExportFilename("csv"), limit)
SavePacketsToCSV ==
    /\ db /\ ~closed /\ Exported(made) < MaxExports
    /\ \E limit \in ExportLimits : \E fault \in CsvFaults \cup {"none"} :
        \E o \in CsvExport({Limited(q, limit) : q \in OrderByCreatedDesc(rows)}, files,
                            GenerateExportFilename("csv", now), fault) :
            SavePackets("csv", "SavePacketsToCSV", limit, o)

\* Database.SavePacketsToJSON(GenerateExportFilename("json"), limit)
SavePacketsToJSON ==
    /\ db /\ ~closed /\ Exported(made) < MaxExports
    /\ \E limit \in ExportLimits : \E fault \in JsonFaults \cup {"none"} :
        \E o \in JsonExport({Limited(q, limit) : q \in OrderByCreatedDesc(rows)}, files,
                             GenerateExportFilename("json", now), fault) :
            SavePackets("json", "SavePacketsToJSON", limit, o)

InitExport ==
    /\ rpc = "done" /\ nRead = 0 /\ line = NoLine /\ res = NoResult
    /\ out = <<>>
    /\ db = TRUE /\ closed = FALSE
    /\ tasks = {} /\ rows = <<>> /\ nextId = 1 /\ nDone = 0
    /\ upc = "idle" /\ LastPacket = NoPacket /\ Series = <<>> /\ LogLines = <<>>
    /\ PortOpen = FALSE
    /\ snap = NoSnap /\ nEnq = 0 /\ nSpawn = 0
    /\ now = 0 /\ got = NoAnswer /\ listed = NoList
    /\ ids = <<>> /\ cleared = "never" /\ deqd = <<>>
    /\ DBPacketCount = 0 /\ DBLastPacket = NoStored /\ DBSeries = <<>>
    /\ files = NoFiles /\ made = NoFiles /\ logd = <<>>
    /\ acts = <<>> /\ tally = NoTally

NextExport ==
    \/ Tick \/ CallInsert \/ InsertOk \/ InsertFail \/ DeleteAllOk
    \/ SavePacketsToCSV \/ SavePacketsToJSON

SpecExport == InitExport /\ [][NextExport]_vars

\* an export that returned nil with none of its steps having failed
ExportDone(op) == got.op = op /\ got.err = "nil" /\ got.fault = "none"

\* the text is a decimal with prec places that reads back as f rounded to
\* prec places
ReadsAs(text, f, prec) ==
    /\ Index(text, ".") = Len(text) - prec
    /\ ParseFloat(text).err = "nil"
    /\ ParseFloat(text).f = Norm(Scaled(f, prec), prec)

\* the record holds the ten columns of the stored packet p in their order
RowOf(row, p) ==
    /\ Len(row) = 10
    /\ Atoi(row[1]) = [n |-> p.id, err |-> "nil"]
    /\ row[2] = p.Time
    /\ ReadsAs(row[3], p.Latitude, 6)
    /\ ReadsAs(row[4], p.Longitude, 6)
    /\ Atoi(row[5]) = [n |-> p.Satellites, err |-> "nil"]
    /\ ReadsAs(row[6], p.AccelerationX, 3)
    /\ ReadsAs(row[7], p.AccelerationY, 3)
    /\ ReadsAs(row[8], p.AccelerationZ, 3)
    /\ row[9] = "2026-01-01 00:00:" \o PadNat(p.created_at, 2)
    /\ row[10] = "2026-01-01 00:00:" \o PadNat(p.updated_at, 2)

(***************************************************************************)
(* C22.  After a CSV export in which nothing failed, the file it was given *)
(* holds the header record ID, Time, Latitude, Longitude, Satellites,      *)
(* AccelerationX, AccelerationY, AccelerationZ, CreatedAt, UpdatedAt       *)
(* first, also when no packet was listed, and after it one record for each *)
(* packet that GetPackets(limit) returned, in that order, with the         *)
(* packet's values in the columns of the header.                           *)
(***************************************************************************)
C22_CsvHeaderThenRows ==
    ExportDone("SavePacketsToCSV") =>
        /\ got.packets \in {Limited(o, got.limit) : o \in OrderByCreatedDesc(rows)}
        /\ \E c \in {FileNamed(files, got.name)} :
            /\ Len(c) = 1
            /\ Len(c[1].items) = 1 + Len(got.packets)
            /\ c[1].items[1] =
                   << "ID", "Time", "Latitude", "Longitude", "Satellites",
                      "AccelerationX", "AccelerationY", "AccelerationZ",
                      "CreatedAt", "UpdatedAt" >>
            /\ \A i \in 1..Len(got.packets) : RowOf(c[1].items[i + 1], got.packets[i])

\* two rows created in different seconds, exported newest first
C22_Witness ==
    /\ ExportDone("SavePacketsToCSV")
    /\ Len(got.packets) = 2
    /\ got.packets[1].created_at > got.packets[2].created_at
    /\ Len(FileNamed(files, got.name)[1].items) = 3

(***************************************************************************)
(* C23.  After a JSON export in which nothing failed, the file it was      *)
(* given holds an array: the empty array when no packet was listed, and    *)
(* otherwise one object for each packet that GetPackets(limit) returned,   *)
(* in that order.                                                          *)
(***************************************************************************)
C23_JsonArrayOfEntries ==
    ExportDone("SavePacketsToJSON") =>
        \E c \in {FileNamed(files, got.name)} :
            /\ Len(c) = 1
            /\ c[1].marker = "["
            /\ Len(c[1].items) = Len(got.packets)
            /\ \A i \in 1..Len(got.packets) :
                c[1].items[i][1] = "\"id\": " \o Itoa(got.packets[i].id)

(***************************************************************************)
(* C24.  Two exports that created a file were given the same file name     *)
(* exactly when they had the same format and were called in the same       *)
(* second; a name stands for one file; and after an export in which        *)
(* nothing failed the file it was given holds what this export wrote,      *)
(* whatever an earlier export left under that name.                        *)
(***************************************************************************)
C24_NameFromFormatAndSecond ==
    /\ \A a, b \in made :
        a.name = b.name <=> (a.format = b.format /\ a.at = b.at)
    /\ \A f, g \in files : f.name = g.name => f = g
    /\ ExportDone("SavePacketsToCSV") =>
            FileNamed(files, got.name) = <<CsvContent(got.packets)>>
    /\ ExportDone("SavePacketsToJSON") =>
            FileNamed(files, got.name) = <<JsonContent(got.packets)>>

\* a second CSV export within the second found the file of the first, which
\* held other content, and the file now holds what the second wrote
C24_Witness ==
    /\ ExportDone("SavePacketsToCSV")
    /\ \E e \in made : e.name = got.name /\ e.n = 2 /\ e.at = now
    /\ Len(got.replaced) = 1
    /\ got.replaced[1] # CsvContent(got.packets)
    /\ got.replaced[1].items # <<>>
    /\ FileNamed(files, got.name) = <<CsvContent(got.packets)>>
    /\ Cardinality(made) = 1

(***************************************************************************)
(* The button handlers of a frame (main.go:143-250).  They run one after   *)
(* the other on the frame loop's goroutine, in the order of the source,    *)
(* for the buttons clicked since the last frame; the store answers each    *)
(* statement at once.                                                      *)
(***************************************************************************)
\* frames with a click in one run
MaxFrames == 1

Buttons ==
    {"Open", "Clear", "TestWrite", "TestRead", "ClearDB", "LoadFromDB",
     "SaveCSV", "SaveJSON"}

\* the sets of buttons found clicked in one frame: each button alone, all of
\* them, all but Clear, and all but Clear and Clear DB
ClickSets ==
    {{b} : b \in Buttons}
        \cup {Buttons, Buttons \ {"Clear"}, Buttons \ {"Clear", "ClearDB"}}

\* the step of a handler that fails in a frame, if any
NoFault == <<"none", "none">>
Faults ==
    {NoFault,
     <<"TestWrite", "InsertPacket">>, <<"TestWrite", "GetPacketCount">>,
     <<"TestRead", "GetPackets">>, <<"ClearDB", "DeleteAllPackets">>,
     <<"LoadFromDB", "GetAccelerationSeries">>}
        \cup {<<"SaveCSV", f>> : f \in CsvFaults}
        \cup {<<"SaveJSON", f>> : f \in JsonFaults}

\* how the server orders rows of equal created_at through one frame: by
\* rising or by falling identifier
TieBreaks == {"up", "down"}

\* the orders out of qs that break ties the way tb
Broken(qs, tb) ==
    { q \in qs : \A i \in 1..(Len(q) - 1) :
        q[i].created_at = q[i + 1].created_at =>
            IF tb = "up" THEN q[i].id < q[i + 1].id ELSE q[i].id > q[i + 1].id }

\* the step of button b's handler that fails under the frame's fault
FaultOf(fault, b) == IF fault[1] = b THEN fault[2] ELSE "none"

\* time.Now().UnixNano() % 1000 as CreateTestPacket reads it
TestNanos == {0, 999}

\* time.Now().Format("15:04:05")
ClockText(t) == "00:00:" \o PadNat(t, 2)

\* CreateTestPacket() at second t with the clock's nanoseconds ending in n
CreateTestPacket(t, n) ==
    [Time |-> ClockText(t),
     Latitude |-> Norm(54687157 + 10 * n, 6),
     Longitude |-> Norm(25279652 + 10 * n, 6),
     Satellites |-> 8 + (n % 5),
     Acceleration |-> << Norm((n % 200) - 100, 2), Norm((n % 200) - 100, 2),
                         Norm((n % 200) - 100, 2) >>]

\* what the handlers work on
FrameState ==
    [LogLines |-> LogLines, Series |-> Series, PortOpen |-> PortOpen,
     rows |-> rows, nextId |-> nextId, ids |-> ids, cleared |-> cleared,
     DBPacketCount |-> DBPacketCount, DBLastPacket |-> DBLastPacket,
     DBSeries |-> DBSeries, files |-> files, made |-> made,
     logd |-> logd, deqd |-> deqd, did |-> <<>>, deletes |-> 0]

\* state.LogLines = append(state.LogLines, ln)
Logged(s, ln) ==
    [s EXCEPT !.LogLines = Append(@, ln), !.logd = Append(@, ln)]

\* Trimmed leaving the log as long as it has grown
Untrimmed(s) == s

\* if len(state.LogLines) > logCapacity { keep the last logCapacity }
Trimmed(s) == [s EXCEPT !.LogLines = KeepLast(@, LogCap)]

\* history: button b's handler ran, its step failure failed (or none), and
\* the line ln told the operator how it went
Noted(s, b, failure, ln) ==
    [s EXCEPT !.did = Append(@, [btn |-> b, failure |-> failure, line |-> ln])]

\* a handler's report: the line is logged, the log trimmed
Reported(s, b, failure, ln) == Trimmed(Noted(Logged(s, ln), b, failure, ln))

\* main.go:143-151
OnOpen(s, clicks) ==
    IF "Open" \notin clicks THEN {s}
    ELSE {Trimmed(Logged([s EXCEPT !.PortOpen = TRUE],
              "[INFO] COM PORT opened: COM40 - STMicroelect @ 115200 baud"))}

\* main.go:152-155
OnClear(s, clicks) ==
    IF "Clear" \notin clicks THEN {s}
    ELSE {[s EXCEPT !.LogLines = <<>>, !.Series = <<>>, !.logd = <<>>, !.deqd = <<>>]}

\* main.go:158-173: the count is refreshed only when GetPacketCount
\* returns no error, and nothing is logged when it does
OnTestWrite(s, clicks, fault) ==
    IF ~("TestWrite" \in clicks /\ db) THEN {s}
    ELSE IF FaultOf(fault, "TestWrite") = "InsertPacket"
    THEN {Reported(s, "TestWrite", "InsertPacket",
                   "[ERROR] Failed to write to DB: failed to insert packet")}
    ELSE { Reported(
             [s EXCEPT !.rows = Append(@, NewRow(s.nextId,
                                   [seq |-> 0, src |-> "", pkt |-> CreateTestPacket(now, n)])),
                       !.nextId = @ + 1,
                       !.ids = Append(@, s.nextId),
                       !.cleared = IF @ = "never" THEN "never" ELSE "refilled",
                       !.DBPacketCount =
                           IF FaultOf(fault, "TestWrite") = "GetPacketCount"
                           THEN @ ELSE Len(s.rows) + 1],
             "TestWrite", FaultOf(fault, "TestWrite"),
             "[DB] Test packet written with ID: " \o Itoa(s.nextId))
           : n \in TestNanos }

\* the line shown for one of the packets read back
StoredLog(p) ==
    "[DB] ID:" \o Itoa(p.id) \o " Lat:" \o FormatFixed(p.Latitude, 6)
        \o " Lon:" \o FormatFixed(p.Longitude, 6)
        \o " Sat:" \o Itoa(p.Satellites)
        \o " AccZ:" \o FormatFixed(p.AccelerationZ, 2)

RECURSIVE LoggedAll(_, _, _)
\* the lines of q[i], q[i+1], ... logged in turn
LoggedAll(s, q, i) ==
    IF i > Len(q) THEN s ELSE LoggedAll(Logged(s, StoredLog(q[i])), q, i + 1)

\* main.go:175-196: GetPackets(5), the first three of them shown
OnTestRead(s, clicks, fault, tb) ==
    IF ~("TestRead" \in clicks /\ db) THEN {s}
    ELSE IF FaultOf(fault, "TestRead") = "GetPackets"
    THEN {Reported(s, "TestRead", "GetPackets",
                   "[ERROR] Failed to read from DB: failed to query packets")}
    ELSE { Trimmed(Noted(
               [LoggedAll(Logged(s, "[DB] Retrieved " \o Itoa(Len(q))
                                        \o " packets from database"),
                          Limited(q, 3), 1)
                   EXCEPT !.DBLastPacket = IF Len(q) > 0 THEN <<q[1]>> ELSE @],
               "TestRead", "none",
               "[DB] Retrieved " \o Itoa(Len(q)) \o " packets from database"))
           : q \in {Limited(o, 5) : o \in Broken(OrderByCreatedDesc(s.rows), tb)} }

\* main.go:198-211
OnClearDB(s, clicks, fault) ==
    IF ~("ClearDB" \in clicks /\ db) THEN {s}
    ELSE IF FaultOf(fault, "ClearDB") = "DeleteAllPackets"
    THEN {Reported([s EXCEPT !.deletes = @ + 1], "ClearDB", "DeleteAllPackets",
                   "[ERROR] Failed to clear DB: failed to delete all packets")}
    ELSE {Reported([s EXCEPT !.rows = <<>>,
                             !.nextId = NextIdAfterDelete(@),
                             !.cleared = "emptied",
                             !.deletes = @ + 1,
                             !.DBPacketCount = 0,
                             !.DBLastPacket = NoStored,
                             !.DBSeries = <<>>],
                   "ClearDB", "none", "[DB] All packets cleared from database")}

\* main.go:213-224: GetAccelerationSeries(seriesCapacity)
OnLoadFromDB(s, clicks, fault, tb) ==
    IF ~("LoadFromDB" \in clicks /\ db) THEN {s}
    ELSE IF FaultOf(fault, "LoadFromDB") = "GetAccelerationSeries"
    THEN {Reported(s, "LoadFromDB", "GetAccelerationSeries",
              "[ERROR] Failed to load series from DB: failed to query acceleration series")}
    ELSE { Reported([s EXCEPT !.DBSeries = z], "LoadFromDB", "none",
                    "[DB] Loaded " \o Itoa(Len(z)) \o " data points for visualization")
           : z \in {Float32Of(ZOf(Limited(o, SeriesCap)))
                       : o \in Broken(OrderByCreatedAsc(s.rows), tb)} }

\* the end of a Save handler whose export gave the outcome o
Saved(s, b, format, what, o) ==
    Reported([s EXCEPT !.files = o.files,
                       !.made = IF o.created
                                THEN Made(@, GenerateExportFilename(format, now), format, now)
                                ELSE @],
             b, o.fault,
             IF o.err # "nil"
             THEN "[ERROR] Failed to save " \o what \o ": " \o o.err
             ELSE "[EXPORT] Data saved to: " \o GenerateExportFilename(format, now))

\* main.go:226-237
OnSaveCSV(s, clicks, fault, tb) ==
    IF ~("SaveCSV" \in clicks /\ db) THEN {s}
    ELSE { Saved(s, "SaveCSV", "csv", "CSV", o)
           : o \in CsvExport({Limited(q, 0) : q \in Broken(OrderByCreatedDesc(s.rows), tb)},
                             s.files, GenerateExportFilename("csv", now),
                             FaultOf(fault, "SaveCSV")) }

\* main.go:239-250
OnSaveJSON(s, clicks, fault, tb) ==
    IF ~("SaveJSON" \in clicks /\ db) THEN {s}
    ELSE { Saved(s, "SaveJSON", "json", "JSON", o)
           : o \in JsonExport({Limited(q, 0) : q \in Broken(OrderByCreatedDesc(s.rows), tb)},
                              s.files, GenerateExportFilename("json", now),
                              FaultOf(fault, "SaveJSON")) }

\* the rest of a frame in which buttons were clicked: the handlers in the
\* order of the source, then layoutRoot and ev.Frame
FrameButtons ==
    /\ upc = "buttons" /\ ~closed
    /\ tally.frames < MaxFrames
    /\ \E clicks \in ClickSets :
       \E fault \in {f \in Faults : f = NoFault \/ (db /\ f[1] \in clicks)} :
       \E tb \in TieBreaks :
       \E s1 \in OnOpen(FrameState, clicks) :
       \E s2 \in OnClear(s1, clicks) :
       \E s3 \in OnTestWrite(s2, clicks, fault) :
       \E s4 \in OnTestRead(s3, clicks, fault, tb) :
       \E s5 \in OnClearDB(s4, clicks, fault) :
       \E s6 \in OnLoadFromDB(s5, clicks, fault, tb) :
       \E s7 \in OnSaveCSV(s6, clicks, fault, tb) :
       \E s \in OnSaveJSON(s7, clicks, fault, tb) :
            /\ LogLines' = s.LogLines /\ Series' = s.Series /\ PortOpen' = s.PortOpen
            /\ rows' = s.rows /\ nextId' = s.nextId
            /\ ids' = s.ids /\ cleared' = s.cleared
            /\ DBPacketCount' = s.DBPacketCount
            /\ DBLastPacket' = s.DBLastPacket
            /\ DBSeries' = s.DBSeries
            /\ files' = s.files /\ made' = s.made
            /\ logd' = s.logd /\ deqd' = s.deqd
            /\ acts' = <<[clicks |-> clicks, did |-> s.did]>>
            /\ tally' = [frames |-> tally.frames + 1,
                         requests |-> tally.requests
                                        + (IF "ClearDB" \in clicks THEN 1 ELSE 0),
                         deletes |-> tally.deletes + s.deletes]
    /\ got' = NoAnswer /\ listed' = NoList
    /\ upc' = "idle"
    /\ UNCHANGED <<readerVars, out, db, closed, tasks, nDone, LastPacket,
                   histVars, now>>

\* one pass of the reader's loop over the next well-formed line while the
\* channel has room, taken as one step: the packet is sent and, with a
\* store, its auto-save goroutine started
Arrive ==
    /\ nSpawn < MaxDone /\ CanSend(out)
    /\ \E l \in {GoodLine(nEnq + 1)} : \E r \in {ParsePacket(l)} :
       \E e \in {[seq |-> nEnq + 1, src |-> l, pkt |-> r.p]} :
            /\ out' = ChanSend(out, e)
            /\ tasks' = tasks \cup Spawned(db, e)
    /\ nEnq' = nEnq + 1
    /\ nSpawn' = nSpawn + 1
    /\ UNCHANGED <<readerVars, db, closed, rows, nextId, nDone, uiVars, snap, moreVars>>

InitButtons ==
    /\ rpc = "read" /\ nRead = 0 /\ line = NoLine /\ res = NoResult
    /\ out = <<>>
    /\ db = TRUE /\ closed = FALSE
    /\ tasks = {} /\ rows = <<>> /\ nextId = 1 /\ nDone = 0
    /\ upc = "idle" /\ LastPacket = NoPacket /\ Series = <<>> /\ LogLines = <<>>
    /\ PortOpen = FALSE
    /\ snap = NoSnap /\ nEnq = 0 /\ nSpawn = 0
    /\ now = 0 /\ got = NoAnswer /\ listed = NoList
    /\ ids = <<>> /\ cleared = "never" /\ deqd = <<>>
    /\ DBPacketCount = 0 /\ DBLastPacket = NoStored /\ DBSeries = <<>>
    /\ files = NoFiles /\ made = NoFiles /\ logd = <<>>
    /\ acts = <<>> /\ tally = NoTally

NextButtons ==
    \/ Tick \/ Arrive \/ InsertOk \/ InsertFail
    \/ FrameStart \/ DrainRecv \/ DrainDone \/ FrameEnd \/ FrameButtons

SpecButtons == InitButtons /\ [][NextButtons]_vars

(***************************************************************************)
(* C21.  When a frame has ended the log holds at most LogCap lines, and    *)
(* they are the last lines appended since the last clear, by drained       *)
(* packets and by button handlers alike, in the order they were appended.  *)
(***************************************************************************)
C21_LogIsRecentTail ==
    upc = "idle" =>
        /\ Len(LogLines) <= LogCap
        /\ \E n \in {Len(logd)} : \E k \in {Min(n, LogCap)} :
            /\ Len(LogLines) = k
            /\ \A i \in 1..k : LogLines[i] = logd[n - k + i]

\* a frame drained a packet and then ran every handler but Clear: more
\* lines were appended than the log holds, and it holds the last ones
C21_Witness ==
    /\ upc = "idle"
    /\ Len(acts) = 1 /\ acts[1].clicks = Buttons \ {"Clear"}
    /\ Len(acts[1].did) = 6
    /\ Len(deqd) > 0
    /\ Len(logd) >= Len(deqd) + 7
    /\ Len(LogLines) = LogCap
    /\ LogLines[LogCap] = acts[1].did[6].line

(***************************************************************************)
(* C25.  Whenever a step of a button handler failed (the insert or the     *)
(* count refresh of the test write, the query of the test read, the        *)
(* delete, the series query, or a step of an export down to the final      *)
(* flush), the line that handler logged is an [ERROR] line.                *)
(***************************************************************************)
C25_FailuresShown ==
    \A f \in 1..Len(acts) : \A i \in 1..Len(acts[f].did) :
        acts[f].did[i].failure # "none" => HasPrefix(acts[f].did[i].line, "[ERROR]")

(***************************************************************************)
(* C26.  DeleteAllPackets is called only in a frame that comes after an    *)
(* earlier frame in which the deletion was requested: the click that makes *)
(* the call confirms a request made by an earlier user event.              *)
(***************************************************************************)
C26_DeleteStep == tally.deletes' > tally.deletes => tally.requests > 0

C26_DeleteNeedsConfirmation == [][C26_DeleteStep]_vars

(***************************************************************************)
(* C29.  In every step each row of the table stays in its place with its   *)
(* identifier and all its fields unchanged, unless the step called         *)
(* DeleteAllPackets, which leaves the table empty: auto-saves, test        *)
(* writes, queries and exports change and remove no stored row.            *)
(***************************************************************************)
C29_RowsStep ==
    \/ /\ Len(rows') >= Len(rows)
       /\ \A i \in 1..Len(rows) : rows'[i] = rows[i]
    \/ /\ tally.deletes' > tally.deletes
       /\ rows' = <<>>

C29_RowsKeptUntilDeleted == [][C29_RowsStep]_vars

\* an auto-saved row is in the table after a frame that wrote a test
\* packet, read the table back, loaded the series and exported it twice
C29_Witness ==
    /\ Len(acts) = 1 /\ acts[1].clicks = Buttons \ {"Clear", "ClearDB"}
    /\ Len(acts[1].did) = 5
    /\ Len(rows) = 2 /\ rows[1].seq = 1 /\ rows[2].seq = 0
    /\ Cardinality(files) = 2

(***************************************************************************)
(* The reader and the frame loop with its buttons when NewDatabase failed  *)
(* at start-up: db is nil and state.DBConnected false.                     *)
(***************************************************************************)
NextNoStore ==
    \/ OpenPort \/ ReadError \/ ReadLine \/ Decode
    \/ Offer \/ Evict \/ Send \/ Spawn
    \/ FrameStart \/ DrainRecv \/ DrainDone \/ FrameEnd \/ FrameButtons \/ Destroy

SpecNoStore == InitFrame /\ [][NextNoStore]_vars

(***************************************************************************)
(* C27.  Without a store no auto-save is started and no statement reaches  *)
(* the store, no file is written and the handlers of the store's buttons   *)
(* do nothing; the reader goes on: a well-formed line is decoded and goes  *)
(* to the enqueue, the enqueue never waits and ends with the packet in the *)
(* channel, and the reader stops only if the port could not be opened.     *)
(***************************************************************************)
C27_NoStoreState ==
    /\ tasks = {} /\ nSpawn = 0 /\ nDone = 0
    /\ rows = <<>> /\ nextId = 1 /\ ids = <<>>
    /\ tally.deletes = 0 /\ files = NoFiles /\ ~closed
    /\ DBPacketCount = 0 /\ DBLastPacket = NoStored /\ DBSeries = <<>>
    /\ \A f \in 1..Len(acts) : acts[f].did = <<>>
    /\ rpc = "send" => CanSend(out)

C27_NoStoreStep ==
    /\ (rpc = "parse" /\ rpc' # rpc /\ line = GoodLine(nRead)) => rpc' = "offer"
    /\ (rpc \in {"offer", "send"} /\ rpc' = "spawn")
            => (out' = Append(out, Cur) /\ nEnq' = nEnq + 1)
    /\ (rpc = "offer" /\ rpc' # rpc) => rpc' \in {"spawn", "evict"}
    /\ (rpc = "evict" /\ rpc' # rpc) => rpc' = "send"
    /\ rpc' = "done" => rpc \in {"open", "done"}
    /\ (tally.frames' > tally.frames
            /\ acts'[1].clicks \cap {"Open", "Clear"} = {})
        => UNCHANGED <<LogLines, Series, PortOpen, LastPacket, out>>

C27_IngestionWithoutStore == []C27_NoStoreState /\ [][C27_NoStoreStep]_vars

\* a frame with every button clicked went by without a store and the reader
\* enqueued a packet afterwards
C27_Witness ==
    /\ ~db /\ Len(acts) = 1 /\ acts[1].clicks = Buttons
    /\ rpc = "spawn" /\ Cur \in Range(out) /\ nEnq >= 1 /\ deqd = <<>>

(***************************************************************************)
(* C28.  The rows of the table, which stand in the order in which the      *)
(* store executed their inserts, carry strictly increasing identifiers:    *)
(* of two persisted records the one inserted first has the smaller         *)
(* identifier, whichever was decoded first.                                *)
(***************************************************************************)
C28_IdsInArrivalOrder ==
    \A i, j \in 1..Len(rows) : i < j => rows[i].id < rows[j].id

\* two auto-saves were running at once and the record decoded later was
\* inserted first: it holds the smaller identifier
C28_Witness ==
    /\ Len(rows) = 2
    /\ rows[1].seq > rows[2].seq
    /\ rows[1].id < rows[2].id

(***************************************************************************)
(* C30.  Whenever the reader's second select takes a record out of the     *)
(* channel, the channel holds ChanCap records at that moment.              *)
(***************************************************************************)
C30_EvictStep ==
    (rpc = "evict" /\ rpc' = "send" /\ out' # out) => Len(out) = ChanCap

C30_EvictOnlyWhenFull == [][C30_EvictStep]_vars

(***************************************************************************)
(* C31.  Every pending auto-save and every row an auto-save wrote holds    *)
(* the record decoded from the line of the iteration that started it: its  *)
(* line is one the wire delivered at that read and its fields are what     *)
(* ParsePacket made of that line.  No two of them stem from the same       *)
(* iteration, and an insert writes the record of the goroutine that ends   *)
(* with it, however far the reader has gone on since.                      *)
(***************************************************************************)
PacketOf(r) ==
    [Time |-> r.Time, Latitude |-> r.Latitude, Longitude |-> r.Longitude,
     Satellites |-> r.Satellites,
     Acceleration |-> <<r.AccelerationX, r.AccelerationY, r.AccelerationZ>>]

OwnRecord(seq, src, pkt) ==
    /\ seq \in 1..nRead
    /\ src \in WireLines(seq)
    /\ \E r \in {ParsePacket(src)} : r.err = "nil" /\ r.p = pkt

C31_RecordsOfOwnIteration ==
    /\ \A t \in tasks : OwnRecord(t.seq, t.src, t.pkt)
    /\ \A i \in 1..Len(rows) : OwnRecord(rows[i].seq, rows[i].src, PacketOf(rows[i]))
    /\ \A t, u \in tasks : t.seq = u.seq => t = u
    /\ \A i, j \in 1..Len(rows) : rows[i].seq = rows[j].seq => i = j
    /\ \A t \in tasks : \A i \in 1..Len(rows) : rows[i].seq # t.seq

C31_InsertStep ==
    Len(rows') > Len(rows) =>
        \E t \in tasks :
            /\ tasks' = tasks \ {t}
            /\ rows' = Append(rows, rows'[Len(rows')])
            /\ rows'[Len(rows')].seq = t.seq
            /\ PacketOf(rows'[Len(rows')]) = t.pkt

C31_TaskInsertsItsOwnRecord ==
    []C31_RecordsOfOwnIteration /\ [][C31_InsertStep]_vars

\* the auto-save of an earlier iteration ran after the reader had decoded a
\* later line and after that line's own auto-save: the row written last
\* holds the earlier line's record, not the later one's
C31_Witness ==
    /\ Len(rows) = 2 /\ tasks = {}
    /\ rows[2].seq < rows[1].seq /\ rows[1].seq <= nRead
    /\ rows[2].src = GoodLine(rows[2].seq)
    /\ PacketOf(rows[2]) # PacketOf(rows[1])

(***************************************************************************)
(* C32.  Once runApp has returned and its deferred db.Close() has run, no  *)
(* InsertPacket call is made by the reader's auto-save goroutines: in no   *)
(* step taken with the handle closed does the number of InsertPacket calls *)
(* that came back grow.                                                    *)
(***************************************************************************)
C32_CloseStep == closed => nDone' = nDone

C32_NoInsertAfterClose == [][C32_CloseStep]_vars

(***************************************************************************)
(* C33.  An export whose GetPackets fails returns an error and leaves the  *)
(* files as they were: no file is created and a file that already has the  *)
(* export's name keeps its content.                                        *)
(***************************************************************************)
C33_FailedQueryStep ==
    (got'.op \in {"SavePacketsToCSV", "SavePacketsToJSON"}
            /\ got'.fault = "GetPackets")
        => /\ got'.err # "nil"
           /\ files' = files
           /\ made' = made
           /\ FileNamed(files', got'.name) = FileNamed(files, got'.name)

C33_FailedQueryKeepsFiles == [][C33_FailedQueryStep]_vars

\* a CSV export failed at its query in the second in which an earlier one
\* had written rows to the file of the same name, which still holds them
C33_Witness ==
    /\ got.op = "SavePacketsToCSV" /\ got.fault = "GetPackets"
    /\ got.err # "nil" /\ Len(rows) > 0
    /\ \E f \in files :
        /\ f.name = got.name
        /\ f.content.format = "csv"
        /\ Len(f.content.items) > 1

(***************************************************************************)
(* The frame loop beside a reader whose device never stops sending: the    *)
(* device repeats a cycle of StreamLines well-formed lines, there is no    *)
(* store, and an iteration of the reader (read, decode, the two selects,   *)
(* Invalidate) is one step.  The histories deqd and logd hold the recent   *)
(* past only.  A line may or may not arrive; Invalidate gets a frame       *)
(* scheduled, and the event loop, once in a frame, goes on.                *)
(***************************************************************************)
StreamLines == 4

\* one iteration of startSerialReader's loop on the next line of the cycle
Stream ==
    /\ rpc = "read"
    /\ \E n \in {(nRead % StreamLines) + 1} :
       \E l \in {GoodLine(n)} : \E r \in {ParsePacket(l)} :
       \E e \in {[seq |-> n, src |-> l, pkt |-> r.p]} :
            /\ r.err = "nil"
            /\ nRead' = n
            /\ out' = IF CanSend(out) THEN ChanSend(out, e)
                      ELSE ChanSend(Evicted(out), e)
    /\ UNCHANGED <<rpc, line, res, db, closed, storeVars, uiVars, histVars, moreVars>>

\* drain: case p := <-packets
StreamRecv ==
    /\ upc = "drain"
    /\ Len(out) > 0
    /\ \E r \in {ChanRecv(out)} :
        /\ out' = r.rest
        /\ LastPacket' = r.val
        /\ Series' = KeepLast(Append(Series, Float32(r.val.pkt.Acceleration[3])), SeriesCap)
        /\ LogLines' = KeepLast(Append(LogLines, PacketLog(r.val.pkt)), LogCap)
        /\ deqd' = KeepLast(Append(deqd, r.val), SeriesCap)
        /\ logd' = KeepLast(Append(logd, PacketLog(r.val.pkt)), LogCap)
    /\ UNCHANGED <<readerVars, db, closed, storeVars, upc, PortOpen, histVars,
                   now, got, listed, ids, cleared, dbuiVars, fileVars, clickVars>>

InitStream ==
    /\ rpc = "read" /\ nRead = 0 /\ line = NoLine /\ res = NoResult
    /\ out = <<>>
    /\ db = FALSE /\ closed = FALSE
    /\ tasks = {} /\ rows = <<>> /\ nextId = 1 /\ nDone = 0
    /\ upc = "idle" /\ LastPacket = NoPacket /\ Series = <<>> /\ LogLines = <<>>
    /\ PortOpen = FALSE
    /\ snap = NoSnap /\ nEnq = 0 /\ nSpawn = 0
    /\ now = 0 /\ got = NoAnswer /\ listed = NoList
    /\ ids = <<>> /\ cleared = "never" /\ deqd = <<>>
    /\ DBPacketCount = 0 /\ DBLastPacket = NoStored /\ DBSeries = <<>>
    /\ files = NoFiles /\ made = NoFiles /\ logd = <<>>
    /\ acts = <<>> /\ tally = NoTally

NextStream == Stream \/ FrameStart \/ StreamRecv \/ DrainDone \/ FrameEnd

FairStream ==
    /\ WF_vars(FrameStart) /\ WF_vars(StreamRecv)
    /\ WF_vars(DrainDone) /\ WF_vars(FrameEnd)

SpecStream == InitStream /\ [][NextStream]_vars /\ FairStream

(***************************************************************************)
(* C34.  A frame that has started its drain always gets to the button      *)
(* handlers: the drain loop ends in every frame, also while the reader     *)
(* keeps enqueuing.                                                        *)
(***************************************************************************)
C34_DrainTerminates == (upc = "drain") ~> (upc = "buttons")

(***************************************************************************)
(* The reader and the frame loop of SpecFrame with an event loop that goes *)
(* on: a frame that can start does start, and a frame that has started     *)
(* drains, runs its handlers and ends.                                     *)
(***************************************************************************)
FairLoop ==
    /\ WF_vars(FrameStart) /\ WF_vars(DrainRecv) /\ WF_vars(DrainDone)
    /\ WF_vars(FrameEnd \/ FrameEndCleared)

SpecLive == InitFrame /\ [][NextFrame]_vars /\ FairLoop

\* the line numbers of the records in the channel
SeqsHeld == {out[i].seq : i \in 1..Len(out)}

\* frames keep being scheduled: the window is never destroyed
FramesGoOn == []<>(upc = "drain")

\* the reader enqueues no more: it has returned, or it waits for a line and
\* the device sends none
Quiet == rpc = "done" \/ (rpc = "read" /\ nRead = MaxLines)

(***************************************************************************)
(* C35.  A record leaves the channel only by the drain, which makes it     *)
(* LastPacket and appends its z value to the series, or by the eviction    *)
(* of an enqueue of a later record.  While frames keep being scheduled     *)
(* every record in the channel leaves it in the end, and once the reader   *)
(* enqueues no more the channel gets empty; whenever it is empty then,     *)
(* LastPacket is at least as late as every record that ever was in the     *)
(* channel: it is the last record decoded.                                 *)
(***************************************************************************)
C35_LeaveStep ==
    \A i \in 1..Len(out) : out[i] \notin Range(out') =>
        \/ /\ upc = "drain" /\ i = 1
           /\ LastPacket' = out[i]
           /\ Len(Series') > 0
           /\ Series'[Len(Series')] = Float32(out[i].pkt.Acceleration[3])
        \/ /\ rpc = "evict" /\ rpc' = "send" /\ i = 1
           /\ Cur.seq > out[i].seq

C35_LastIsNewest ==
    \A n \in 1..MaxLines :
        [](n \in SeqsHeld =>
            []((Quiet /\ out = <<>>) => (LastPacket.seq >= n /\ LastPacket.seq <= nRead)))

C35_Leaves == \A n \in 1..MaxLines : (n \in SeqsHeld) ~> (n \notin SeqsHeld)

C35_QuietDrains == Quiet ~> (Quiet /\ out = <<>>)

C35_EnqueuedIsConsumed ==
    /\ [][C35_LeaveStep]_vars
    /\ C35_LastIsNewest
    /\ FramesGoOn => (C35_Leaves /\ C35_QuietDrains)

\* the reader has enqueued its last record after an earlier one was evicted
\* and the frame loop has emptied the channel: LastPacket is the last line's
\* record
C35_Witness ==
    /\ Quiet /\ rpc = "read" /\ out = <<>> /\ upc = "idle"
    /\ nEnq > Len(deqd) /\ Len(deqd) > 0
    /\ LastPacket.seq = nRead /\ LastPacket.src = GoodLine(nRead)

=============================================================================
